---- MODULE Spec2Model ----
(***************************************************************************)
(* Model of the Loops email-provider webhook: signature verification       *)
(* (internal/webhook/http.go), the HTTP pipeline Webhook.ServeHTTP and the *)
(* ContactGroupMembership webhook handler                                  *)
(* (NewLoopsContactGroupMembershipWebhookV1), and of the two reconcilers   *)
(* that mirror Contacts and ContactGroupMemberships to the provider        *)
(* (LoopsContactController, LoopsContactGroupMembershipController).        *)
(*                                                                         *)
(* Go strings and byte slices are sequences of one-character strings, so   *)
(* that Sprintf, Split, Contains and base64 act on text as the code does.  *)
(***************************************************************************)
EXTENDS Integers, Sequences, FiniteSets, TLC

VARIABLES
    signingSecret,  \* Webhook.signingSecret, fixed at construction
    contacts,       \* store: Contact objects
    groups,         \* store: ContactGroup objects
    memberships,    \* store: ContactGroupMembership objects
    removals,       \* store: ContactGroupMembershipRemoval objects
    last,           \* the request handled last and its response
    hist,           \* the run of consecutive 200-answered events just handled; under
                    \* SpecPair, the store steps taken so far
    vin,            \* verifyWebhook under test: headers, body, secret
    vsigned,        \* <<id, timestamp, body>> the header in vin was generated for
    vres,           \* verifyWebhook's result on vin, "none" before the call
    resource,       \* store: the Contact or ContactGroupMembership under reconciliation
    rlast,          \* the Reconcile call made last: what it read, called and returned
    now,            \* the clock metav1.Now() reads
    provider,       \* the remote provider's contacts and their mailing-list flags
    clast,          \* the call of the Loops client made last: requests sent, result
    inflight        \* webhook requests being handled: each one's request and lookups

vars == <<signingSecret, contacts, groups, memberships, removals,
          last, hist, vin, vsigned, vres, resource, rlast, now, provider, clast,
          inflight>>

Nil == [nil |-> TRUE]

(***************************************************************************)
(* Bounds of the model.                                                    *)
(***************************************************************************)
\* Objects (memberships and removals) the store holds at most.
MaxObjects == 3

\* The generation a record's spec changes reach at most.
MaxGeneration == 2

\* The time the clock reaches at most.
MaxClock == 1

(***************************************************************************)
(* Text helpers: strings.Split, strings.Contains.                          *)
(***************************************************************************)
RECURSIVE Split(_, _)
Split(s, sep) ==
    LET IndexOf(t, ch) ==
            IF \E k \in 1..Len(t) : t[k] = ch
            THEN CHOOSE k \in 1..Len(t) : t[k] = ch /\ \A j \in 1..(k - 1) : t[j] # ch
            ELSE 0
        i == IndexOf(s, sep)
    IN  IF i = 0 THEN <<s>>
        ELSE <<SubSeq(s, 1, i - 1)>> \o Split(SubSeq(s, i + 1, Len(s)), sep)

(***************************************************************************)
(* encoding/base64, StdEncoding.                                           *)
(***************************************************************************)
B64Alphabet ==
    << "A","B","C","D","E","F","G","H","I","J","K","L","M","N","O","P",
       "Q","R","S","T","U","V","W","X","Y","Z","a","b","c","d","e","f",
       "g","h","i","j","k","l","m","n","o","p","q","r","s","t","u","v",
       "w","x","y","z","0","1","2","3","4","5","6","7","8","9","+","/" >>

RECURSIVE B64Bytes(_, _)
B64Bytes(s, pad) ==
    LET
        B64Value(ch) == (CHOOSE i \in 1..64 : B64Alphabet[i] = ch) - 1
        \* The three bytes of one quantum of four sextets.
        B64Quantum(a, b, c, d) ==
            LET n == ((a * 64 + b) * 64 + c) * 64 + d
            IN  << n \div 65536, (n \div 256) % 256, n % 256 >>
    IN
    IF Len(s) = 0 THEN << >>
    ELSE IF Len(s) = 4 /\ pad > 0
         THEN LET q == B64Quantum(B64Value(s[1]), B64Value(s[2]),
                                  IF pad = 2 THEN 0 ELSE B64Value(s[3]), 0)
              IN  SubSeq(q, 1, 3 - pad)
         ELSE B64Quantum(B64Value(s[1]), B64Value(s[2]), B64Value(s[3]), B64Value(s[4]))
              \o B64Bytes(SubSeq(s, 5, Len(s)), pad)

\* base64.StdEncoding.DecodeString: [ok, bytes].
DecodeString(s) ==
    LET IsB64Char(ch) == \E k \in 1..64 : B64Alphabet[k] = ch
        \* Number of "=" characters that end s (at most 2 count as padding).
        pad ==
            IF Len(s) >= 2 /\ s[Len(s)] = "=" /\ s[Len(s) - 1] = "=" THEN 2
            ELSE IF Len(s) >= 1 /\ s[Len(s)] = "=" THEN 1
            ELSE 0
    IN  IF Len(s) % 4 = 0
           /\ \A i \in 1..(Len(s) - pad) : IsB64Char(s[i])
        THEN [ok |-> TRUE, bytes |-> B64Bytes(s, pad)]
        ELSE [ok |-> FALSE, bytes |-> << >>]

(***************************************************************************)
(* HMAC-SHA256 followed by base64.StdEncoding.EncodeToString, idealised:   *)
(* the digest text determines the key and the signed content (no           *)
(* collisions), is written in the base64 alphabet and ends with the        *)
(* padding character, so that no digest is a proper prefix of another, as  *)
(* with the 44-character encodings of 32-byte digests.                     *)
(***************************************************************************)
RECURSIVE KeyText(_)
KeyText(bytes) ==
    IF Len(bytes) = 0 THEN << >>
    ELSE << B64Alphabet[(bytes[1] \div 16) + 1], B64Alphabet[(bytes[1] % 16) + 1] >>
         \o KeyText(Tail(bytes))

HmacSha256Base64(secretBytes, signedContent) ==
    LET
        ContentText(content) ==
            [i \in 1..Len(content) |-> IF content[i] = "." THEN "/" ELSE content[i]]
    IN
    KeyText(secretBytes) \o <<"+">> \o ContentText(signedContent) \o <<"=">>

(***************************************************************************)
(* verifyWebhook (internal/webhook/http.go).  The result is the error's    *)
(* Code, or "OK" for a nil error.                                          *)
(***************************************************************************)
\* A signed content that leaves the body out.
SignedContentWithoutBody(eventID, timestamp, body) ==
    eventID \o <<".">> \o timestamp

SignedContent(eventID, timestamp, body) ==
    eventID \o <<".">> \o timestamp \o <<".">> \o body

\* One entry of the webhook-signature header against the computed signature.
SignatureMatches(sig, signature) ==
    LET
        Contains(s, sub) ==
            \E i \in 0..(Len(s) - Len(sub)) : SubSeq(s, i + 1, i + Len(sub)) = sub
    IN
                                    Contains(sig, <<",">> \o signature)

verifyWebhook(eventID, timestamp, webhookSignature, body, secret) ==
    IF eventID = << >> \/ timestamp = << >> \/ webhookSignature = << >>
    THEN "MISSING_HEADERS"
    ELSE LET parts == Split(secret, "_")
         IN  IF Len(parts) < 2 THEN "INVALID_SECRET_FORMAT"
             ELSE LET dec == DecodeString(parts[2])
                  IN  IF ~dec.ok THEN "INVALID_SECRET_ENCODING"
                      ELSE LET signature ==
                                   HmacSha256Base64(dec.bytes,
                                       SignedContent(eventID, timestamp, body))
                               sigs == Split(webhookSignature, " ")
                           IN  IF \E k \in 1..Len(sigs) : SignatureMatches(sigs[k], signature)
                               THEN "OK"
                               ELSE "INVALID_SIGNATURE"

(***************************************************************************)
(* The sender's side of the signature: the header Loops generates for a    *)
(* request, "v1," followed by the signature of the signed content.         *)
(***************************************************************************)
ValidSecret(secret) ==
    Len(Split(secret, "_")) >= 2 /\ DecodeString(Split(secret, "_")[2]).ok

ExpectedSignature(secret, eventID, timestamp, body) ==
    LET SecretBytes == DecodeString(Split(secret, "_")[2]).bytes
    IN  HmacSha256Base64(SecretBytes, SignedContent(eventID, timestamp, body))

GenerateSignatureHeader(secret, eventID, timestamp, body) ==
    <<"v", "1", ",">> \o ExpectedSignature(secret, eventID, timestamp, body)

(***************************************************************************)
(* Inputs of the verification specification.                               *)
(***************************************************************************)
SecretABC == <<"w","h","s","e","c","_","Q","U","J","D">>      \* key bytes "ABC"
SecretAB  == <<"w","h","s","e","c","_","Q","U","I","=">>      \* key bytes "AB"
SecretNoPrefix == <<"w","h","s","e","c">>                     \* no "_": bad format
SecretShort == <<"w","h","s","e","c","_","Q","U","J">>        \* bad base64 length

VBodies == { <<"b">>, <<"c">> }

StoreVars == <<signingSecret, contacts, groups, memberships, removals, last, hist,
               resource, rlast, now, provider, clast, inflight>>

VInit ==
    /\ vin \in [eventID : { << >>, <<"m">>, <<"m", ".", "t">> }, timestamp : { << >>, <<"t">>, <<"u">>, <<"t", ".", "t">> }, body : VBodies,
                signature : {<< >>}, secret : {SecretABC, SecretAB, SecretNoPrefix, SecretShort, <<"w","h","s","e","c","_","Q","U","*","D">>}]
    /\ vsigned = << >>
    /\ vres = "none"

\* The sender signs the request as it stands.
VSign ==
    /\ vin.signature = << >>
    /\ ValidSecret(vin.secret)
    /\ vin' = [vin EXCEPT !.signature =
                   GenerateSignatureHeader(vin.secret, vin.eventID, vin.timestamp, vin.body)]
    /\ vsigned' = <<vin.eventID, vin.timestamp, vin.body>>
    /\ vres' = "none"
    /\ UNCHANGED StoreVars

\* Someone on the path changes the event id, the timestamp or the body and
\* leaves the signature header alone.
VTamper ==
    /\ \/ \E x \in { << >>, <<"m">>, <<"m", ".", "t">> } : x # vin.eventID /\ vin' = [vin EXCEPT !.eventID = x]
       \/ \E x \in { << >>, <<"t">>, <<"u">>, <<"t", ".", "t">> } : x # vin.timestamp /\ vin' = [vin EXCEPT !.timestamp = x]
       \/ \E x \in VBodies : x # vin.body /\ vin' = [vin EXCEPT !.body = x]
    /\ UNCHANGED vsigned
    /\ vres' = "none"
    /\ UNCHANGED StoreVars

\* An arbitrary sender writes a signature header of its own around the digest
\* of this request or of another body, under this key or another.
VForge ==
    LET
        \* The shapes of webhook-signature header an arbitrary sender may build around
        \* a digest text d.
        HeaderShapes(d) ==
            { <<"v","1",",">> \o d,                                  \* v1,<d>
              <<"v","1",",">> \o d \o <<"x">>,                       \* v1,<d>x
              <<"v","1",",","x">> \o d,                              \* v1,x<d>
              d,                                                     \* <d>
              <<"v","0",",","z"," ","v","1",",">> \o d,              \* v0,z v1,<d>
              <<"v","1",",">> \o d \o <<" ","v","0",",","z">>,       \* v1,<d> v0,z
              <<"v","1"," ",",">> \o d,                              \* v1 ,<d>
              <<"v","1",",">> \o SubSeq(d, 1, Len(d) - 1) }          \* v1,<d cut short>
    IN
    /\ vin.signature = << >>
    /\ \E key \in {SecretABC, SecretAB}, b \in VBodies :
         \E h \in HeaderShapes(ExpectedSignature(key, vin.eventID, vin.timestamp, b)) :
             vin' = [vin EXCEPT !.signature = h]
    /\ vsigned' = << >>
    /\ vres' = "none"
    /\ UNCHANGED StoreVars

VVerify ==
    /\ vres = "none"
    /\ vres' = verifyWebhook(vin.eventID, vin.timestamp, vin.signature, vin.body, vin.secret)
    /\ UNCHANGED <<vin, vsigned>>
    /\ UNCHANGED StoreVars

StoreIdle ==
    /\ signingSecret = SecretABC
    /\ contacts = {}
    /\ groups = {}
    /\ memberships = {}
    /\ removals = {}
    /\ last = Nil
    /\ hist = << >>
    /\ resource = Nil
    /\ rlast = Nil
    /\ now = 0
    /\ provider = Nil
    /\ clast = Nil
    /\ inflight = << >>

NextVerify == VSign \/ VTamper \/ VForge \/ VVerify

InitVerify == VInit /\ StoreIdle

SpecVerify == InitVerify /\ [][NextVerify]_vars

(***************************************************************************)
(* The declarative store as the webhook sees it.  Names and namespaces are *)
(* text; UIDs and provider IDs are opaque strings.                         *)
(***************************************************************************)
ContactA == [name |-> <<"a">>, namespace |-> <<"b", "-", "c">>, uid |-> "1",
             providers |-> << [name |-> "Loops", id |-> "1"] >>]
ContactB == [name |-> <<"a", "-", "b">>, namespace |-> <<"c">>, uid |-> "2",
             providers |-> << >>]
GroupG == [name |-> <<"g">>, namespace |-> <<"n">>,
           providers |-> << [name |-> "Loops", id |-> "7"] >>]
GroupH == [name |-> <<"h">>, namespace |-> <<"n">>,
           providers |-> << [name |-> "Other", id |-> "9"], [name |-> "Loops", id |-> "8"] >>]
GroupK == [name |-> <<"k">>, namespace |-> <<"n">>,
           providers |-> << [name |-> "Other", id |-> "9"] >>]

\* The response constructors (status code only).
OkResponse == 200
BadRequestResponse == 400
UnauthorizedResponse == 401
MethodNotAllowedResponse == 405
InternalServerErrorResponse == 500

\* The event names of pkg/loops.
EventNameMailingListSubscribed == "contact.mailingList.subscribed"
EventNameMailingListUnsubscribed == "contact.mailingList.unsubscribed"

\* The store calls of the handler that may fail with a server error.
StoreOps == {"listContacts", "listGroups", "listRemovals",
             "deleteRemoval", "createMembership", "createRemoval"}

(***************************************************************************)
(* Field indexes (setupIndexes) and indexed List calls.                    *)
(***************************************************************************)
buildGroupMembershipRemovalIndexKey(contactRef, groupRef) ==
    contactRef.name \o <<"-">> \o contactRef.namespace \o <<"-">>
        \o groupRef.name \o <<"-">> \o groupRef.namespace

ContactIndexValues(contact) ==
    IF contact.uid = "" THEN {} ELSE {contact.uid}

RECURSIVE FirstLoopsProvider(_)
FirstLoopsProvider(providers) ==
    IF Len(providers) = 0 THEN {}
    ELSE IF providers[1].name = "Loops" THEN {providers[1].id}
    ELSE FirstLoopsProvider(Tail(providers))

\* An index on the first provider whatever its name.
GroupIndexValuesAnyProvider(group) ==
    IF Len(group.providers) = 0 THEN {} ELSE {group.providers[1].id}

GroupIndexValues(group) == FirstLoopsProvider(group.providers)

RemovalIndexValues(removal) ==
    {buildGroupMembershipRemovalIndexKey(removal.spec.contactRef, removal.spec.contactGroupRef)}

\* client.List with MatchingFields: the objects whose index values hold the key.
ListContactsByProviderID(cs, providerID) ==
    {c \in cs : providerID \in ContactIndexValues(c)}

ListGroupsByProviderID(gs, providerID) ==
    {g \in gs : providerID \in GroupIndexValues(g)}

ListRemovalsByKey(rs, contact, group) ==
    {r \in rs : buildGroupMembershipRemovalIndexKey(
                     [name |-> contact.name, namespace |-> contact.namespace],
                     [name |-> group.name, namespace |-> group.namespace])
                 \in RemovalIndexValues(r)}

(***************************************************************************)
(* Object creation.  Both webhook creates set GenerateName and no Name:    *)
(* the store appends a suffix of its own choosing that makes the name      *)
(* unused in the namespace.  Names matter only by equality, so the model   *)
(* takes the first unused suffix.                                          *)
(***************************************************************************)
NameTaken(objects, namespace, name) ==
    \E o \in objects : o.name = name /\ o.namespace = namespace

GeneratedName(objects, namespace, generateName) ==
    LET
        NameSuffixes == <<"0", "1", "2", "3", "4", "5", "6", "7", "8", "9">>
    IN
    LET free == {k \in 1..Len(NameSuffixes) :
                    ~NameTaken(objects, namespace, generateName \o <<NameSuffixes[k]>>)}
        k == CHOOSE x \in free : \A y \in free : x <= y
    IN  generateName \o <<NameSuffixes[k]>>

\* The object both creates build: metadata and the two references.
NewRefObject(objects, contact, group) ==
    [name |-> GeneratedName(objects, group.namespace,
                            group.name \o <<"-">> \o contact.name),
     namespace |-> group.namespace,
     spec |-> [contactRef |-> [name |-> contact.name, namespace |-> contact.namespace],
               contactGroupRef |-> [name |-> group.name, namespace |-> group.namespace]]]

\* client.Create: [err, objects]; AlreadyExists when the (namespace, name) is taken.
StoreCreate(objects, obj) ==
    IF NameTaken(objects, obj.namespace, obj.name)
    THEN [err |-> "AlreadyExists", objects |-> objects]
    ELSE [err |-> "", objects |-> objects \cup {obj}]

(***************************************************************************)
(* The webhook handler (NewLoopsContactGroupMembershipWebhookV1).          *)
(* st is the store's mutable part [memberships, removals]; fail is the     *)
(* store call that answers with a server error in this request, or "none"; *)
(* contact, group and removal are what the three lookups return.  The      *)
(* outcome is the response, the store afterwards, the number of store      *)
(* calls made and the store call that failed.                              *)
(***************************************************************************)
Outcome(resp, ms, rs, calls, failed) ==
    [resp |-> resp, memberships |-> ms, removals |-> rs,
     calls |-> calls, failed |-> failed]

createContactGroupMembership(st, contact, group, fail) ==
    IF fail = "createMembership"
    THEN [err |-> "InternalError", objects |-> st.memberships]
    ELSE StoreCreate(st.memberships, NewRefObject(st.memberships, contact, group))

createContactGroupMembershipRemoval(st, contact, group, fail) ==
    IF fail = "createRemoval"
    THEN [err |-> "InternalError", objects |-> st.removals]
    ELSE StoreCreate(st.removals, NewRefObject(st.removals, contact, group))

deleteContactGroupMembershipRemoval(st, removal, fail) ==
    LET
        \* client.Delete: [err, objects]; NotFound when the object is gone.
        StoreDelete(objects, obj) ==
            IF obj \in objects
            THEN [err |-> "", objects |-> objects \ {obj}]
            ELSE [err |-> "NotFound", objects |-> objects]
    IN
    IF fail = "deleteRemoval"
    THEN [err |-> "InternalError", objects |-> st.removals]
    ELSE StoreDelete(st.removals, removal)

\* The subscribed branch: the removal found is deleted, then the membership
\* is created.
SubscribedCreate(st, contact, group, fail, rs, calls) ==
    LET cr == createContactGroupMembership(st, contact, group, fail)
    IN  IF cr.err # "" /\ cr.err # "AlreadyExists"
        THEN Outcome(InternalServerErrorResponse, cr.objects, rs, calls + 1,
                     "createMembership")
        ELSE Outcome(OkResponse, cr.objects, rs, calls + 1, "none")

\* A subscribed branch that leaves the removal in place.
HandleSubscribedKeepRemoval(st, contact, group, removal, fail) ==
    IF fail = "listRemovals"
    THEN Outcome(InternalServerErrorResponse, st.memberships, st.removals, 3,
                 "listRemovals")
    ELSE SubscribedCreate(st, contact, group, fail, st.removals, 3)

\* A subscribed branch that creates the membership before deleting the removal.
HandleSubscribedCreateFirst(st, contact, group, removal, fail) ==
    IF fail = "listRemovals"
    THEN Outcome(InternalServerErrorResponse, st.memberships, st.removals, 3,
                 "listRemovals")
    ELSE LET made == SubscribedCreate(st, contact, group, fail, st.removals, 3)
         IN  IF made.resp # OkResponse \/ removal = Nil THEN made
             ELSE LET del == deleteContactGroupMembershipRemoval(st, removal, fail)
                  IN  IF del.err # ""
                      THEN Outcome(InternalServerErrorResponse, made.memberships,
                                   del.objects, 5, "deleteRemoval")
                      ELSE Outcome(OkResponse, made.memberships, del.objects, 5, "none")

HandleSubscribed(st, contact, group, removal, fail) ==
    IF fail = "listRemovals"
    THEN Outcome(InternalServerErrorResponse, st.memberships, st.removals, 3,
                 "listRemovals")
    ELSE IF removal # Nil
         THEN LET del == deleteContactGroupMembershipRemoval(st, removal, fail)
              IN  IF del.err # ""
                  THEN Outcome(InternalServerErrorResponse, st.memberships, del.objects,
                               4, "deleteRemoval")
                  ELSE SubscribedCreate(st, contact, group, fail, del.objects, 4)
         ELSE SubscribedCreate(st, contact, group, fail, st.removals, 3)

\* An unsubscribed branch that also deletes the memberships of the pair.
HandleUnsubscribedDropMembership(st, contact, group, removal, fail) ==
    LET kept == {m \in st.memberships :
                    m.spec # NewRefObject(st.memberships, contact, group).spec}
    IN  IF fail = "listRemovals"
        THEN Outcome(InternalServerErrorResponse, st.memberships, st.removals, 3,
                     "listRemovals")
        ELSE IF removal # Nil
             THEN Outcome(OkResponse, kept, st.removals, 4, "none")
             ELSE LET cr == createContactGroupMembershipRemoval(st, contact, group, fail)
                  IN  IF cr.err # ""
                      THEN Outcome(InternalServerErrorResponse, st.memberships,
                                   cr.objects, 4, "createRemoval")
                      ELSE Outcome(OkResponse, kept, cr.objects, 5, "none")

\* The unsubscribed branch: a removal is created unless one is found.
HandleUnsubscribed(st, contact, group, removal, fail) ==
    IF fail = "listRemovals"
    THEN Outcome(InternalServerErrorResponse, st.memberships, st.removals, 3,
                 "listRemovals")
    ELSE IF removal # Nil
         THEN Outcome(OkResponse, st.memberships, st.removals, 3, "none")
         ELSE LET cr == createContactGroupMembershipRemoval(st, contact, group, fail)
              IN  IF cr.err # ""
                  THEN Outcome(InternalServerErrorResponse, st.memberships, cr.objects,
                               4, "createRemoval")
                  ELSE Outcome(OkResponse, st.memberships, cr.objects, 4, "none")

RequestGroupID(req) ==
    IF req.MailingListUnsubscribedEvent # Nil
    THEN req.MailingListUnsubscribedEvent.MailingList.ID
    ELSE IF req.MailingListSubscribedEvent # Nil
         THEN req.MailingListSubscribedEvent.MailingList.ID
         ELSE ""

Handle(req, st, fail, contact, group, removal) ==
    LET same(resp, calls, failed) ==
            Outcome(resp, st.memberships, st.removals, calls, failed)
        userUID == req.BaseEvent.ContactIdentity.UserID
        groupID == RequestGroupID(req)
    IN  IF userUID = "" THEN same(BadRequestResponse, 0, "none")
        ELSE IF fail = "listContacts"
             THEN same(InternalServerErrorResponse, 1, "listContacts")
        ELSE IF contact = Nil THEN same(BadRequestResponse, 1, "none")
        ELSE IF groupID = "" THEN same(BadRequestResponse, 1, "none")
        ELSE IF fail = "listGroups"
             THEN same(InternalServerErrorResponse, 2, "listGroups")
        ELSE IF group = Nil THEN same(BadRequestResponse, 2, "none")
        ELSE IF req.MailingListSubscribedEvent # Nil
             THEN HandleSubscribed(st, contact, group, removal, fail)
        ELSE IF req.MailingListUnsubscribedEvent # Nil
             THEN HandleUnsubscribed(st, contact, group, removal, fail)
        ELSE same(BadRequestResponse, 2, "none")

\* What the handler's three lookups may return for a user id and a list id.
Lookups(userUID, groupID) ==
    LET
        \* What a lookup returns from a List result: nil for an empty list, else
        \* Items[0]; the list's order is the store's, so any item may be first.
        FirstItems(items) == IF items = {} THEN {Nil} ELSE items
    IN
    UNION { UNION { { [contact |-> c, group |-> g, removal |-> rm] :
                        rm \in FirstItems(IF c = Nil \/ g = Nil THEN {}
                                          ELSE ListRemovalsByKey(removals, c, g)) } :
                    g \in FirstItems(ListGroupsByProviderID(groups, groupID)) } :
            c \in FirstItems(ListContactsByProviderID(contacts, userUID)) }

(***************************************************************************)
(* Specification Spec: the handler invoked with one parsed request after   *)
(* another (requests are handled one at a time).                           *)
(***************************************************************************)

\* The Request ServeHTTP builds for an event of the given kind.
MakeRequest(kind, userUID, listID) ==
    LET base == [EventName |-> IF kind = "subscribed"
                               THEN EventNameMailingListSubscribed
                               ELSE EventNameMailingListUnsubscribed,
                 ContactIdentity |-> [UserID |-> userUID]]
    IN  [MailingListSubscribedEvent |->
             IF kind = "subscribed" THEN [MailingList |-> [ID |-> listID]] ELSE Nil,
         MailingListUnsubscribedEvent |->
             IF kind = "unsubscribed" THEN [MailingList |-> [ID |-> listID]] ELSE Nil,
         BaseEvent |-> base]

RequestKind(req) ==
    IF req.MailingListSubscribedEvent # Nil THEN "subscribed" ELSE "unsubscribed"

RefsOf(contact, group) ==
    [contactRef |-> [name |-> contact.name, namespace |-> contact.namespace],
     contactGroupRef |-> [name |-> group.name, namespace |-> group.namespace]]

\* The objects of a collection whose spec names this contact and this group.
ObjectsFor(objects, contact, group) ==
    {o \in objects : o.spec = RefsOf(contact, group)}

\* The run of consecutive 200-answered events, the newest last; the three
\* newest are kept.
NextHist(h, req, l, o) ==
    IF o.resp = OkResponse
    THEN LET e == [kind |-> RequestKind(req),
                   contact |-> l.contact, group |-> l.group,
                   mBefore |-> Cardinality(ObjectsFor(memberships, l.contact, l.group)),
                   rBefore |-> Cardinality(ObjectsFor(removals, l.contact, l.group))]
             h2 == Append(h, e)
         IN  IF Len(h2) > 3 THEN Tail(h2) ELSE h2
    ELSE << >>

VerifyIdle ==
    /\ vin = Nil
    /\ vsigned = << >>
    /\ vres = "none"

\* No object is under reconciliation.
ReconcileIdle ==
    /\ resource = Nil
    /\ rlast = Nil
    /\ now = 0

\* The Loops client is not called.
ClientIdle ==
    /\ provider = Nil
    /\ clast = Nil

StoreInit ==
    /\ contacts = {ContactA, ContactB}
    /\ groups = {GroupG, GroupH, GroupK}
    /\ memberships = {}
    /\ removals = {}
    /\ last = Nil
    /\ hist = << >>

\* No webhook request is being handled.
ServeIdle == inflight = << >>

Init ==
    signingSecret = SecretABC /\ StoreInit /\ VerifyIdle /\ ReconcileIdle /\ ClientIdle
        /\ ServeIdle

HandleEvent ==
    /\ Cardinality(memberships) + Cardinality(removals) < MaxObjects
    /\ \E kind \in {"subscribed", "unsubscribed"}, userUID \in {"", "1", "2", "9"}, listID \in {"", "7", "8", "9"},
          fail \in StoreOps \cup {"none"} :
         \E l \in Lookups(userUID, listID), req \in {MakeRequest(kind, userUID, listID)} :
            \E o \in {Handle(req, [memberships |-> memberships, removals |-> removals],
                             fail, l.contact, l.group, l.removal)} :
                /\ o.failed = fail
                /\ memberships' = o.memberships
                /\ removals' = o.removals
                /\ last' = [http |-> Nil, req |-> req, handled |-> TRUE,
                            verify |-> "none", resp |-> o.resp,
                            calls |-> o.calls, failed |-> o.failed,
                            before |-> [memberships |-> memberships,
                                        removals |-> removals]]
                /\ hist' = NextHist(hist, req, l, o)
    /\ UNCHANGED <<signingSecret, contacts, groups, vin, vsigned, vres, resource, rlast, now,
                   provider, clast, inflight>>

Spec == Init /\ [][HandleEvent]_vars

(***************************************************************************)
(* The request body.  A body is bytes; json.Unmarshal either fails or      *)
(* yields the event's fields.  The model's bodies are three bytes long,    *)
(* one per field the handler reads:                                        *)
(*   byte 1  eventName: "s" subscribed, "u" unsubscribed, "x" another name *)
(*   byte 2  contactIdentity.userId: a digit, "0" standing for ""          *)
(*   byte 3  mailingList: a digit for mailingList.id ("0" for ""), or "!"  *)
(*           for a mailingList that is not an object                       *)
(* and any other text is not JSON.                                         *)
(***************************************************************************)

BodyID(ch) == IF ch = "0" THEN "" ELSE ch

\* json.Unmarshal(body, &baseEvent): [ok, event].
UnmarshalWebhookEvent(body) ==
    LET
        BodyEventName(ch) ==
            IF ch = "s" THEN EventNameMailingListSubscribed
            ELSE IF ch = "u" THEN EventNameMailingListUnsubscribed
            ELSE "contact.created"
    IN
    IF Len(body) = 3 /\ body[1] \in {"s", "u", "x"} /\ body[2] \in {"0", "1", "2", "7", "8", "9"}
       /\ body[3] \in {"0", "1", "2", "7", "8", "9"} \cup {"!"}
    THEN [ok |-> TRUE,
          event |-> [EventName |-> BodyEventName(body[1]),
                     ContactIdentity |-> [UserID |-> BodyID(body[2])]]]
    ELSE [ok |-> FALSE, event |-> Nil]

\* json.Unmarshal(body, &subscribedEvent) and (body, &unsubscribedEvent):
\* the typed event adds mailingList, which must be an object.
UnmarshalMailingListEvent(body) ==
    IF UnmarshalWebhookEvent(body).ok /\ body[3] # "!"
    THEN [ok |-> TRUE, event |-> [MailingList |-> [ID |-> BodyID(body[3])]]]
    ELSE [ok |-> FALSE, event |-> Nil]

(***************************************************************************)
(* Webhook.ServeHTTP up to the call of the handler.  r is the HTTP         *)
(* request: method, the three webhook headers, the body and whether        *)
(* reading the body fails.  The result is the response written without     *)
(* calling the handler (req is Nil then), or the Request handed to the     *)
(* handler, and what verifyWebhook answered ("none" when it did not run).  *)
(***************************************************************************)
Rejected(resp, verify) == [resp |-> resp, verify |-> verify, req |-> Nil]

\* The part of ServeHTTP after verification: the base event is parsed, then
\* the typed event its name selects, which goes to the handler.
ParseAndRoute(body, v) ==
    LET
        Routed(req, verify) == [resp |-> 0, verify |-> verify, req |-> req]
    IN
    LET base == UnmarshalWebhookEvent(body)
        typed == UnmarshalMailingListEvent(body)
    IN  IF ~base.ok THEN Rejected(BadRequestResponse, v)
        ELSE IF base.event.EventName = EventNameMailingListSubscribed
             THEN IF ~typed.ok THEN Rejected(BadRequestResponse, v)
                  ELSE Routed([MailingListSubscribedEvent |-> typed.event,
                               MailingListUnsubscribedEvent |-> Nil,
                               BaseEvent |-> base.event], v)
        ELSE IF base.event.EventName = EventNameMailingListUnsubscribed
             THEN IF ~typed.ok THEN Rejected(BadRequestResponse, v)
                  ELSE Routed([MailingListSubscribedEvent |-> Nil,
                               MailingListUnsubscribedEvent |-> typed.event,
                               BaseEvent |-> base.event], v)
        ELSE Rejected(BadRequestResponse, v)

\* A pipeline that goes on after a failed verification.
DispatchWithoutReturn(r, secret) ==
    IF r.method # "POST" THEN Rejected(MethodNotAllowedResponse, "none")
    ELSE IF r.readErr THEN Rejected(InternalServerErrorResponse, "none")
    ELSE ParseAndRoute(r.body,
             verifyWebhook(r.eventID, r.timestamp, r.signature, r.body, secret))

\* A pipeline that verifies the signature before it checks the method.
DispatchVerifyFirst(r, secret) ==
    LET v == verifyWebhook(r.eventID, r.timestamp, r.signature, r.body, secret)
    IN  IF r.readErr THEN Rejected(InternalServerErrorResponse, "none")
        ELSE IF v # "OK" THEN Rejected(UnauthorizedResponse, v)
        ELSE IF r.method # "POST" THEN Rejected(MethodNotAllowedResponse, "none")
        ELSE ParseAndRoute(r.body, v)

\* ServeHTTP up to the call of the handler.
Dispatch(r, secret) ==
    IF r.method # "POST" THEN Rejected(MethodNotAllowedResponse, "none")
    ELSE IF r.readErr THEN Rejected(InternalServerErrorResponse, "none")
    ELSE LET v == verifyWebhook(r.eventID, r.timestamp, r.signature, r.body, secret)
         IN  IF v # "OK" THEN Rejected(UnauthorizedResponse, v)
             ELSE ParseAndRoute(r.body, v)

(***************************************************************************)
(* Specification SpecHTTP: HTTP requests served one after another.         *)
(***************************************************************************)
HTTPEventID == <<"m">>
HTTPTimestamp == <<"t">>
HTTPRequests ==
    LET
        HTTPBodies ==
            { <<e, u, ml>> : e \in {"s", "u", "x"}, u \in {"0", "1", "2", "9"},
                             ml \in {"0", "7", "9", "!"} }
            \cup {<<"{">>}
        \* The webhook-signature headers a request may carry: the sender's for this
        \* body, the sender's for another body (the body was changed on the way),
        \* one made with another key, and none.
        HTTPSignatures(body) ==
            { GenerateSignatureHeader(SecretABC, HTTPEventID, HTTPTimestamp, body),
              GenerateSignatureHeader(SecretABC, HTTPEventID, HTTPTimestamp, body \o <<"b">>),
              GenerateSignatureHeader(SecretAB, HTTPEventID, HTTPTimestamp, body),
              << >> }
    IN
    UNION { { [method |-> m, readErr |-> FALSE, eventID |-> HTTPEventID,
               timestamp |-> HTTPTimestamp, signature |-> sig, body |-> b] :
                 m \in {"POST", "GET"}, sig \in HTTPSignatures(b) } : b \in HTTPBodies }
    \cup { [method |-> "POST", readErr |-> TRUE, eventID |-> HTTPEventID,
            timestamp |-> HTTPTimestamp, signature |-> << >>, body |-> << >>] }

\* Dispatch is a function of the request and the secret: tabulated once.
Dispatched == [secret \in {SecretABC, SecretNoPrefix, SecretShort} |-> [r \in HTTPRequests |-> Dispatch(r, secret)]]

InitHTTP ==
    /\ signingSecret \in {SecretABC, SecretNoPrefix, SecretShort}
    /\ StoreInit
    /\ VerifyIdle
    /\ ReconcileIdle
    /\ ClientIdle
    /\ ServeIdle

\* The handler panicking at a point: what it did to the store up to there
\* stays, and it returns no response.
HandlePanic(req, st, at, contact, group, removal) ==
    IF at = "entry"
    THEN Outcome(0, st.memberships, st.removals, 0, "entry")
    ELSE [Handle(req, st, at, contact, group, removal) EXCEPT !.resp = 0]

\* A ServeHTTP without the deferred recover: a panic leaves no response.
RecoverNothing(panicked, response) == response

\* The deferred function of ServeHTTP: a panic is recovered and answered
\* with InternalServerErrorResponse.
Recover(panicked, response) ==
    IF panicked THEN InternalServerErrorResponse ELSE response

\* ServeHTTP for one of the given requests: it is answered by Dispatch, or
\* by the handler, which may panic at one of the given points.
ServeRequestOf(requests, points) ==
    /\ Cardinality(memberships) + Cardinality(removals) < MaxObjects
    /\ \E r \in requests :
         \E d \in {Dispatched[signingSecret][r]} :
            IF d.req = Nil
            THEN /\ last' = [http |-> r, req |-> Nil, handled |-> FALSE,
                             verify |-> d.verify, resp |-> Recover(FALSE, d.resp),
                             calls |-> 0, failed |-> "none",
                             panicked |-> FALSE, afterPanic |-> (last # Nil /\ last.panicked),
                             before |-> [memberships |-> memberships,
                                         removals |-> removals]]
                 /\ UNCHANGED <<memberships, removals>>
            ELSE \E l \in Lookups(d.req.BaseEvent.ContactIdentity.UserID,
                                  RequestGroupID(d.req)),
                    at \in points \cup {"none"} :
                   \E fail \in IF at = "none" THEN StoreOps \cup {"none"} ELSE {at} :
                      \E o \in {IF at = "none"
                                THEN Handle(d.req, [memberships |-> memberships,
                                                    removals |-> removals],
                                            fail, l.contact, l.group, l.removal)
                                ELSE HandlePanic(d.req, [memberships |-> memberships,
                                                         removals |-> removals],
                                                 at, l.contact, l.group, l.removal)} :
                         /\ o.failed = fail
                         /\ memberships' = o.memberships
                         /\ removals' = o.removals
                         /\ last' = [http |-> r, req |-> d.req, handled |-> TRUE,
                                     verify |-> d.verify,
                                     resp |-> Recover(at # "none", o.resp),
                                     calls |-> o.calls,
                                     failed |-> IF at = "none" THEN o.failed ELSE "panic",
                                     panicked |-> at # "none", afterPanic |-> (last # Nil /\ last.panicked),
                                     before |-> [memberships |-> memberships,
                                                 removals |-> removals]]
    /\ UNCHANGED <<signingSecret, contacts, groups, hist, vin, vsigned, vres,
                   resource, rlast, now, provider, clast, inflight>>

\* ServeHTTP with a handler that does not panic.
ServeRequest == ServeRequestOf(HTTPRequests, {})

SpecHTTP == InitHTTP /\ [][ServeRequest]_vars

(***************************************************************************)
(* Specification SpecPanic: HTTP requests served one after another by a    *)
(* handler that may panic.  The requests are signed events, resolvable or  *)
(* not, and the same events without a signature.                           *)
(***************************************************************************)
ServePanicking ==
    LET
        PanicRequests ==
            {r \in HTTPRequests :
                /\ r.method = "POST"
                /\ ~r.readErr
                /\ r.body \in {<<e, u, ml>> : e \in {"s", "u"}, u \in {"1", "9"}, ml \in {"7", "9"}}
                /\ r.signature \in
                      {GenerateSignatureHeader(SecretABC, HTTPEventID, HTTPTimestamp, r.body),
                       << >>}}
    IN  \* a panic is raised on entry of the handler or in one of its store calls
        ServeRequestOf(PanicRequests, {"entry"} \cup StoreOps)

SpecPanic == InitHTTP /\ [][ServePanicking]_vars

(***************************************************************************)
(* The reconcilers.  An error of the remote provider is a loops.Error      *)
(* (status code and body) or an opaque transport error; NoError is nil.    *)
(* A condition is metav1.Condition without its type, which is the field    *)
(* of the status that holds it.                                            *)
(***************************************************************************)
NoError == Nil

ApiError(code, body) == [api |-> TRUE, StatusCode |-> code, Body |-> body]

RemoteResults ==
    {NoError, ApiError(400, "e1"), ApiError(400, "e2"), ApiError(404, "e1"),
     [api |-> FALSE, StatusCode |-> 0, Body |-> "timeout"]}

\* A test that takes every error for a loops.Error of the status asked for.
isErrorStatusAny(err, status) == err # NoError

isErrorStatus(err, status) == err # NoError /\ err.api /\ err.StatusCode = status

\* A predicate that never sees the loops.Error inside a wrapped error.
IsBadRequestNever(err) == FALSE

IsBadRequest(err) == isErrorStatus(err, 400)

IsNotFound(err) == isErrorStatus(err, 404)

\* err.Error(): the text of the error, the same for the same error.
ErrorText(err) == <<err.StatusCode, err.Body>>

LoopsContactNotCreatedReason == "ContactNotCreated"
LoopsContactCreatedReason == "ContactCreated"
LoopsContactUpdatedReason == "ContactUpdated"
LoopsContactNotUpdatedReason == "ContactNotUpdated"
NewsLetterAddedReason == "NewsLetterAdded"
NewsLetterNotAddedReason == "NewsLetterNotAdded"

\* A condition whose status is True whatever status it is given.
ConditionAlwaysTrue(status, reason, message, t, generation) ==
    [status |-> "True", reason |-> reason, message |-> message,
     lastTransitionTime |-> t, observedGeneration |-> generation]

Condition(status, reason, message, t, generation) ==
    [status |-> status, reason |-> reason, message |-> message,
     lastTransitionTime |-> t, observedGeneration |-> generation]

\* A SetStatusCondition that always takes the new transition time.
SetStatusConditionNewTime(existing, new) == new

\* meta.SetStatusCondition: a new condition is stored as given; an existing
\* one takes the new fields, and the new transition time only when its
\* status changes.
SetStatusCondition(existing, new) ==
    IF existing = Nil THEN new
    ELSE [new EXCEPT !.lastTransitionTime =
              IF existing.status # new.status THEN new.lastTransitionTime
              ELSE existing.lastTransitionTime]

\* A SetStatusCondition that appends the entry whether or not the
\* conditions hold one of its type.
SetStatusConditionAppends(st, type, new) ==
    [st EXCEPT ![type] = SetStatusCondition(@, new),
               !.conditions = Append(@, type)]

\* meta.SetStatusCondition(&Status.Conditions, new) on a status: conditions
\* lists the types of the entries of Status.Conditions in their order, and
\* the field named after a type is the entry FindStatusCondition returns for
\* it.  The entry of the type is changed in place; without one, the new
\* condition is appended.
SetStatusConditionIn(st, type, new) ==
    [st EXCEPT ![type] = SetStatusCondition(@, new),
               !.conditions = IF \E i \in 1..Len(@) : @[i] = type
                              THEN @ ELSE Append(@, type)]

\* One call a reconcile makes, to the store or to the remote provider.
Call(op, arg, res) == [op |-> op, arg |-> arg, res |-> res]

\* What Reconcile returns (ctrl.Result and error) with the store it leaves
\* and the status it computed, which is the status stored unless a patch of
\* it failed.
Reconciled(o, ms, calls, err, requeue, patched) ==
    [resource |-> o, memberships |-> ms, calls |-> calls, err |-> err,
     requeue |-> requeue, patched |-> patched, computed |-> o.status]

PatchFailed(o, st, ms, calls) ==
    [Reconciled(o, ms, Append(calls, Call("StatusPatch", st, "err")), TRUE, FALSE, FALSE)
        EXCEPT !.computed = st]

HasPrefix(s, prefix) ==
    Len(s) >= Len(prefix) /\ SubSeq(s, 1, Len(prefix)) = prefix

NewsletterPrefix == <<"n", "e", "w", "s", "l", "e", "t", "t", "e", "r", "-">>

\* A prefix test that leaves the dash out.
isNewsletterContactNoDash(contact) ==
    HasPrefix(contact.name, SubSeq(NewsletterPrefix, 1, 10))

isNewsletterContact(contact) == HasPrefix(contact.name, NewsletterPrefix)

\* The configured newsletter group (NewsLetterContactGroupName/Namespace).
NewsLetterContactGroup == GroupG

generateCgmName(contact) ==
    LET
        \* fmt.Sprintf("%x", sha256.Sum256(uid)): a text of hex digits, one per UID.
        Sha256Hex(uid) == <<"f", uid>>
    IN
                            contact.name \o <<"-">> \o Sha256Hex(contact.uid)

\* A Finalize that adds the finalizer key and never runs the finalizer.
FinalizeStepAddOnly(o) ==
    IF ~o.deleting /\ ~o.finalizer THEN "add" ELSE "none"

\* Finalizers.Finalize: what the registered finalizer does to the object.
\* "add": the finalizer key is put on an object not being deleted;
\* "finalize": the object is being deleted and carries the key;
\* "none": nothing to do.
FinalizeStep(o) ==
    IF ~o.deleting /\ ~o.finalizer THEN "add"
    ELSE IF o.deleting /\ o.finalizer THEN "finalize"
    ELSE "none"

\* An update for which a conflict is an error like any other.
UpdateAfterFinalizeConflictFails(o, changed, ms, calls, env) ==
    IF env.write = "ok"
    THEN Reconciled([changed EXCEPT !.exists = ~(changed.deleting /\ ~changed.finalizer /\ ~changed.held)],
                    ms, Append(calls, Call("Update", "", "ok")), FALSE, FALSE, FALSE)
    ELSE Reconciled(o, ms, Append(calls, Call("Update", "", env.write)), TRUE, FALSE, FALSE)

\* Client.Update after the finalizers changed the object: the object is
\* stored; one that is being deleted and lost its last finalizer is purged
\* (held: a finalizer of another controller is on the object).
UpdateAfterFinalize(o, changed, ms, calls, env) ==
    IF env.write = "ok"
    THEN Reconciled([changed EXCEPT !.exists = ~(changed.deleting /\ ~changed.finalizer /\ ~changed.held)],
                    ms, Append(calls, Call("Update", "", "ok")), FALSE, FALSE, FALSE)
    ELSE IF env.write = "conflict"
    THEN Reconciled(o, ms, Append(calls, Call("Update", "", "conflict")),
                    FALSE, TRUE, FALSE)
    ELSE Reconciled(o, ms, Append(calls, Call("Update", "", "err")), TRUE, FALSE, FALSE)

(***************************************************************************)
(* The Contact reconciler.  env gives what each call answers in this       *)
(* reconcile: get reads the record, write is the one write to the record   *)
(* (the Update after the finalizers or the status Patch), create creates   *)
(* the newsletter membership, remote is the one call to the remote         *)
(* provider (UpsertContact or DeleteContact).  t is the time metav1.Now()  *)
(* reads.                                                                  *)
(***************************************************************************)
\* upsertContact: one UpsertContact call with the contact's UID as user id.
upsertContact(contact, env) == Call("UpsertContact", contact.uid, env.remote)

\* A DeleteContact for which not-found is an error like any other.
DeleteContactStrict(contact, env) == env.remote

\* loopsContactFinalizer.DeleteContact: the error it returns, not-found
\* counting as success.
DeleteContact(contact, env) ==
    IF env.remote # NoError /\ ~IsNotFound(env.remote) THEN env.remote ELSE NoError

\* A creation case that is taken once only.
ContactNeedsCreateOnce(readyCond) == readyCond = Nil

\* The two cases of the switch on the Ready condition.
ContactNeedsCreate(readyCond) ==
    readyCond = Nil \/ readyCond.reason = LoopsContactNotCreatedReason

\* An update case that does not look at the generation.
ContactNeedsUpdateAlways(readyCond, contact) == TRUE

\* An update case that is never taken.
ContactNeedsUpdateNever(readyCond, contact) == FALSE

ContactNeedsUpdate(readyCond, contact) ==
    readyCond.observedGeneration # contact.generation

\* The providers a created contact records: the local UID as the remote ID.
ContactProviderStatusByName(contact) == << [name |-> "Loops", id |-> contact.name] >>

ContactProviderStatus(contact) == << [name |-> "Loops", id |-> contact.uid] >>

\* The switch on the Ready condition: [status, calls, err], err the error
\* Reconcile returns at once.
ContactReadySwitch(contact, env, t) ==
    LET st == contact.status
        readyCond == st.ready
        e == env.remote
        calls == <<upsertContact(contact, env)>>
        set(status, reason, message) ==
            SetStatusConditionIn(st, "ready",
                 Condition(status, reason, message, t, contact.generation))
    IN  IF ContactNeedsCreate(readyCond)
        THEN IF e # NoError /\ ~IsBadRequest(e)
             THEN [status |-> st, calls |-> calls, err |-> TRUE]
             ELSE IF e # NoError
             THEN [status |-> set("False", LoopsContactNotCreatedReason,
                                  <<"not created", ErrorText(e)>>),
                   calls |-> calls, err |-> FALSE]
             ELSE [status |-> [set("True", LoopsContactCreatedReason, <<"created">>)
                                  EXCEPT !.providers = ContactProviderStatus(contact)],
                   calls |-> calls, err |-> FALSE]
        ELSE IF ContactNeedsUpdate(readyCond, contact)
        THEN IF e # NoError /\ ~IsBadRequest(e)
             THEN [status |-> st, calls |-> calls, err |-> TRUE]
             ELSE IF e # NoError
             THEN [status |-> set("False", LoopsContactNotUpdatedReason,
                                  <<"not updated", ErrorText(e)>>),
                   calls |-> calls, err |-> FALSE]
             ELSE [status |-> set("True", LoopsContactUpdatedReason, <<"updated">>),
                   calls |-> calls, err |-> FALSE]
        ELSE [status |-> st, calls |-> << >>, err |-> FALSE]

\* addToNewsLetterList: [status, memberships, calls, failed].
addToNewsLetterList(contact, st, ms, env, t) ==
    LET newsLetterCond == st.newsletter
        cgm == [name |-> generateCgmName(contact), namespace |-> contact.namespace,
                spec |-> RefsOf(contact, NewsLetterContactGroup)]
        set(status, reason, message) ==
            SetStatusConditionIn(st, "newsletter",
                 Condition(status, reason, message, t, contact.generation))
    IN  IF newsLetterCond # Nil /\ newsLetterCond.status = "True"
        THEN [status |-> st, memberships |-> ms, calls |-> << >>, failed |-> FALSE]
        ELSE IF env.create = "err"
        THEN [status |-> set("False", NewsLetterNotAddedReason, <<"not added">>),
              memberships |-> ms, calls |-> <<Call("Create", cgm, "err")>>,
              failed |-> TRUE]
        ELSE LET cr == StoreCreate(ms, cgm)
             IN  IF cr.err = "AlreadyExists"
                 THEN [status |-> st, memberships |-> ms,
                       calls |-> <<Call("Create", cgm, "AlreadyExists")>>,
                       failed |-> FALSE]
                 ELSE [status |-> set("True", NewsLetterAddedReason, <<"added">>),
                       memberships |-> cr.objects,
                       calls |-> <<Call("Create", cgm, "ok")>>, failed |-> FALSE]

\* The end of Reconcile: the newsletter side effect, then the status patch
\* when the status changed, then the error of the side effect.
ContactFinish(contact, sw, ms, calls, env, t) ==
    LET nl == IF isNewsletterContact(contact)
              THEN addToNewsLetterList(contact, sw.status, ms, env, t)
              ELSE [status |-> sw.status, memberships |-> ms, calls |-> << >>,
                    failed |-> FALSE]
        all == calls \o sw.calls \o nl.calls
    IN  IF nl.status # contact.status
        THEN IF env.write = "ok"
             THEN Reconciled([contact EXCEPT !.status = nl.status], nl.memberships,
                             Append(all, Call("StatusPatch", nl.status, "ok")),
                             nl.failed, FALSE, TRUE)
             ELSE PatchFailed(contact, nl.status, nl.memberships, all)
        ELSE Reconciled(contact, nl.memberships, all, nl.failed, FALSE, FALSE)

\* LoopsContactController.Reconcile.
ContactReconcile(contact, ms, env, t) ==
    LET got == <<Call("Get", "", env.get)>>
        step == FinalizeStep(contact)
    IN  IF env.get = "err" THEN Reconciled(contact, ms, got, TRUE, FALSE, FALSE)
        ELSE IF ~contact.exists THEN Reconciled(contact, ms, got, FALSE, FALSE, FALSE)
        ELSE IF step = "add"
        THEN UpdateAfterFinalize(contact, [contact EXCEPT !.finalizer = TRUE],
                                 ms, got, env)
        ELSE IF step = "finalize"
        THEN LET del == Append(got, Call("DeleteContact", contact.uid, env.remote))
             IN  IF DeleteContact(contact, env) # NoError
                 THEN Reconciled(contact, ms, del, TRUE, FALSE, FALSE)
                 ELSE UpdateAfterFinalize(contact, [contact EXCEPT !.finalizer = FALSE],
                                          ms, del, env)
        ELSE LET sw == ContactReadySwitch(contact, env, t)
             IN  IF sw.err
                 THEN Reconciled(contact, ms, got \o sw.calls, TRUE, FALSE, FALSE)
                 ELSE ContactFinish(contact, sw, ms, got, env, t)

(***************************************************************************)
(* The ContactGroupMembership reconciler.  env gives what each call        *)
(* answers: get and write as for the Contact, getContact and getGroup read *)
(* the referenced objects, remote is the one call to the remote provider   *)
(* (AddToMailingList or RemoveFromMailingList).                            *)
(***************************************************************************)
LoopsContactGroupMembershipNotCreatedReason == "ContactGroupMembershipNotCreated"
LoopsContactGroupMembershipCreatedReason == "ContactGroupMembershipCreated"
LoopsContactGroupMembershipNotFinalizedReason == "ContactGroupMembershipNotFinalized"

\* getReferencedResources: [err, contact, group, calls]; err is << >> or the
\* text of the error.
getReferencedResources(cs, gs, cgm, env) ==
    LET
        ObjectsNamed(objects, ref) ==
            {x \in objects : x.name = ref.name /\ x.namespace = ref.namespace}
    IN
    LET cfound == ObjectsNamed(cs, cgm.spec.contactRef)
        gfound == ObjectsNamed(gs, cgm.spec.contactGroupRef)
        cres == IF env.getContact = "err" THEN "err"
                ELSE IF cfound = {} THEN "NotFound" ELSE "ok"
        gres == IF env.getGroup = "err" THEN "err"
                ELSE IF gfound = {} THEN "NotFound" ELSE "ok"
        cget == Call("GetContact", cgm.spec.contactRef, cres)
        gget == Call("GetGroup", cgm.spec.contactGroupRef, gres)
    IN  IF cres # "ok"
        THEN [err |-> <<"failed to get Contact", cres>>, contact |-> Nil,
              group |-> Nil, calls |-> <<cget>>]
        ELSE IF gres # "ok"
        THEN [err |-> <<"failed to get ContactGroup", gres>>, contact |-> Nil,
              group |-> Nil, calls |-> <<cget, gget>>]
        ELSE [err |-> << >>, contact |-> CHOOSE c \in cfound : TRUE,
              group |-> CHOOSE g \in gfound : TRUE, calls |-> <<cget, gget>>]

\* getMailingListId: the ID of the first provider named Loops, if any.
\* A lookup that takes the first provider whatever its name.
getMailingListIdFirst(cg) ==
    IF Len(cg.providers) = 0 THEN {} ELSE {cg.providers[1].id}

getMailingListId(cg) == FirstLoopsProvider(cg.providers)

\* addContactToMailingList and removeContactFromMailingList: [err, calls].
MailingListCall(op, c, cg, res) ==
    LET ids == getMailingListId(cg)
    IN  IF ids = {}
        THEN [err |-> <<"failed to get Loops mailing list ID">>, calls |-> << >>]
        ELSE LET id == CHOOSE i \in ids : TRUE
                 call == Call(op, [userID |-> c.uid, listID |-> id], res)
             IN  IF res # NoError
                 THEN [err |-> <<"failed", op, ErrorText(res)>>, calls |-> <<call>>]
                 ELSE [err |-> << >>, calls |-> <<call>>]

addContactToMailingList(c, cg, env) ==
    MailingListCall("AddToMailingList", c, cg, env.remote)

\* A removal for which not-found counts as success, as DeleteContact has it.
removeContactFromMailingListLenient(c, cg, env) ==
    [MailingListCall("RemoveFromMailingList", c, cg, env.remote)
        EXCEPT !.err = IF IsNotFound(env.remote) THEN << >> ELSE @]

removeContactFromMailingList(c, cg, env) ==
    MailingListCall("RemoveFromMailingList", c, cg, env.remote)

\* A PatchStatusIfChanged that never patches.
PatchStatusNever(cgm, st, ms, calls, env, err) ==
    Reconciled(cgm, ms, calls, err, FALSE, FALSE)

\* util.PatchStatusIfChanged on cgm with the status st computed for it.
PatchStatusIfChanged(cgm, st, ms, calls, env, err) ==
    IF st # cgm.status
    THEN IF env.write = "ok"
         THEN Reconciled([cgm EXCEPT !.status = st], ms,
                         Append(calls, Call("StatusPatch", st, "ok")), err, FALSE, TRUE)
         ELSE PatchFailed(cgm, st, ms, calls)
    ELSE Reconciled(cgm, ms, calls, err, FALSE, FALSE)

\* loopsContactGroupMembershipFinalizer.Finalize: [err, out]; out is the
\* reconcile's outcome when the finalizer failed, after its status patch.
MembershipFinalize(cs, gs, cgm, ms, calls, env, t) ==
    LET refs == getReferencedResources(cs, gs, cgm, env)
        rem == IF refs.err = << >>
               THEN removeContactFromMailingList(refs.contact, refs.group, env)
               ELSE [err |-> refs.err, calls |-> << >>]
        all == calls \o refs.calls \o rem.calls
        st == SetStatusConditionIn(cgm.status, "ready",
                   Condition("False", LoopsContactGroupMembershipNotFinalizedReason,
                             <<"not finalized", rem.err>>, t, cgm.generation))
    IN  IF rem.err # << >>
        THEN [err |-> TRUE, calls |-> all,
              out |-> PatchStatusIfChanged(cgm, st, ms, all, env, TRUE)]
        ELSE [err |-> FALSE, calls |-> all, out |-> Nil]

\* A reconcile error that leaves bad-request out, as the Contact reconciler does.
reconcileErrorSoftened(addErr) ==
    addErr # << >> /\ ~(Len(addErr) = 3 /\ addErr[3][1] = 400)

\* reconcileError: the error of addContactToMailingList is the error
\* Reconcile returns after the status patch.
reconcileError(addErr) == addErr # << >>

\* A creation case that is taken again when the generation moved on.
MembershipNeedsCreateOnChange(readyCond, cgm) ==
    \/ readyCond = Nil
    \/ readyCond.reason = LoopsContactGroupMembershipNotCreatedReason
    \/ readyCond.observedGeneration # cgm.generation

\* The one case in which Reconcile calls the remote provider for a
\* membership that is not being deleted.
MembershipNeedsCreate(readyCond, cgm) ==
    \/ readyCond = Nil
    \/ readyCond.reason = LoopsContactGroupMembershipNotCreatedReason

\* The creation step of Reconcile and its status patch.
MembershipCreate(cgm, contact, group, ms, calls, env, t) ==
    LET readyCond == cgm.status.ready
        add == addContactToMailingList(contact, group, env)
        set(status, reason, message) ==
            SetStatusConditionIn(cgm.status, "ready",
                 Condition(status, reason, message, t, cgm.generation))
    IN  IF MembershipNeedsCreate(readyCond, cgm)
        THEN IF add.err # << >>
             THEN PatchStatusIfChanged(cgm,
                      set("False", LoopsContactGroupMembershipNotCreatedReason,
                          <<"not created", add.err>>),
                      ms, calls \o add.calls, env, reconcileError(add.err))
             ELSE PatchStatusIfChanged(cgm,
                      [set("True", LoopsContactGroupMembershipCreatedReason, <<"created">>)
                          EXCEPT !.providers = << [name |-> "Loops", id |-> contact.uid] >>],
                      ms, calls \o add.calls, env, FALSE)
        ELSE PatchStatusIfChanged(cgm, cgm.status, ms, calls, env, FALSE)

\* LoopsContactGroupMembershipController.Reconcile.
MembershipReconcile(cs, gs, cgm, ms, env, t) ==
    LET got == <<Call("Get", "", env.get)>>
        step == FinalizeStep(cgm)
    IN  IF env.get = "err" THEN Reconciled(cgm, ms, got, TRUE, FALSE, FALSE)
        ELSE IF ~cgm.exists THEN Reconciled(cgm, ms, got, FALSE, FALSE, FALSE)
        ELSE IF step = "add"
        THEN UpdateAfterFinalize(cgm, [cgm EXCEPT !.finalizer = TRUE], ms, got, env)
        ELSE IF step = "finalize"
        THEN LET fin == MembershipFinalize(cs, gs, cgm, ms, got, env, t)
             IN  IF fin.err THEN fin.out
                 ELSE UpdateAfterFinalize(cgm, [cgm EXCEPT !.finalizer = FALSE],
                                          ms, fin.calls, env)
        ELSE LET refs == getReferencedResources(cs, gs, cgm, env)
             IN  IF refs.err # << >>
                 THEN Reconciled(cgm, ms, got \o refs.calls, TRUE, FALSE, FALSE)
                 ELSE MembershipCreate(cgm, refs.contact, refs.group, ms,
                                       got \o refs.calls, env, t)

(***************************************************************************)
(* Specification SpecReconcile: one Contact or one ContactGroupMembership  *)
(* is created upstream, edited, deleted and reconciled; a record's         *)
(* reconciles run one after another.                                       *)
(***************************************************************************)

RefTo(x) == [name |-> x.name, namespace |-> x.namespace]

NewResources ==
    LET
        NewContact(name) ==
            [kind |-> "Contact", exists |-> TRUE, name |-> name, namespace |-> <<"c">>,
             uid |-> "5", generation |-> 1, deleting |-> FALSE, finalizer |-> FALSE,
             held |-> FALSE,
             status |-> [conditions |-> << >>, ready |-> Nil, newsletter |-> Nil,
                         providers |-> << >>]]
        NewMembership(contactRef, groupRef) ==
            [kind |-> "Membership", exists |-> TRUE, name |-> <<"m">>, namespace |-> <<"n">>,
             spec |-> [contactRef |-> contactRef, contactGroupRef |-> groupRef],
             generation |-> 1, deleting |-> FALSE, finalizer |-> FALSE, held |-> FALSE,
             status |-> [conditions |-> << >>, ready |-> Nil, providers |-> << >>]]
    IN
    {NewContact(n) : n \in {<<"x">>, NewsletterPrefix \o <<"x">>, SubSeq(NewsletterPrefix, 1, 10)}}
    \cup {NewMembership(RefTo(ContactA), g) :
              g \in {RefTo(GroupH), RefTo(GroupK), [name |-> <<"z">>, namespace |-> <<"n">>]}}
    \cup {NewMembership([name |-> <<"z">>, namespace |-> <<"n">>], RefTo(GroupH))}

ContactEnvs ==
    [get : {"ok", "err"}, write : {"ok", "conflict", "err"}, remote : RemoteResults,
     create : {"ok", "err"}]

MembershipEnvs ==
    [get : {"ok", "err"}, write : {"ok", "conflict", "err"},
     getContact : {"ok", "err"}, getGroup : {"ok", "err"}, remote : RemoteResults]

EnvUsed(env, calls) ==
    LET
        \* The calls each answer of env belongs to, and the answer of a call that is
        \* not made (so that a reconcile is counted once per run of calls).
        EnvCalls ==
            [get |-> {"Get"}, write |-> {"Update", "StatusPatch"}, create |-> {"Create"},
             getContact |-> {"GetContact"}, getGroup |-> {"GetGroup"},
             remote |-> {"UpsertContact", "DeleteContact", "AddToMailingList",
                         "RemoveFromMailingList"}]
        EnvUnused(f) == IF f = "remote" THEN NoError ELSE "ok"
    IN
    \A f \in DOMAIN env :
        (\A i \in 1..Len(calls) : calls[i].op \notin EnvCalls[f]) => env[f] = EnvUnused(f)

Recorded(o) ==
    [kind |-> resource.kind, before |-> resource, after |-> o.resource,
     calls |-> o.calls, err |-> o.err, requeue |-> o.requeue, patched |-> o.patched,
     computed |-> o.computed, at |-> now,
     msBefore |-> memberships, msAfter |-> o.memberships]

InitReconcile ==
    /\ signingSecret = SecretABC
    /\ StoreInit
    /\ VerifyIdle
    /\ resource \in NewResources
    /\ rlast = Nil
    /\ now = 0
    /\ ClientIdle
    /\ ServeIdle

WebhookIdle == UNCHANGED <<signingSecret, contacts, groups, removals, last, hist,
                           vin, vsigned, vres, provider, clast, inflight>>

ReconcileContact ==
    /\ resource.kind = "Contact"
    /\ \E env \in ContactEnvs :
         \E o \in {ContactReconcile(resource, memberships, env, now)} :
            /\ EnvUsed(env, o.calls)
            /\ resource' = o.resource
            /\ memberships' = o.memberships
            /\ rlast' = Recorded(o)
    /\ UNCHANGED now
    /\ WebhookIdle

ReconcileMembership ==
    /\ resource.kind = "Membership"
    /\ \E env \in MembershipEnvs :
         \E o \in {MembershipReconcile(contacts, groups, resource, memberships, env, now)} :
            /\ EnvUsed(env, o.calls)
            /\ resource' = o.resource
            /\ memberships' = o.memberships
            /\ rlast' = Recorded(o)
    /\ UNCHANGED now
    /\ WebhookIdle

\* Upstream changes the spec of the record: its generation advances.
ChangeSpec ==
    /\ resource.exists
    /\ resource.generation < MaxGeneration
    /\ resource' = [resource EXCEPT !.generation = @ + 1]
    /\ UNCHANGED <<memberships, rlast, now>>
    /\ WebhookIdle

\* Upstream deletes the record: with a finalizer on it the store marks it
\* as being deleted, without one the store purges it.
DeleteResource ==
    /\ resource.exists
    /\ ~resource.deleting
    /\ resource' = IF resource.finalizer \/ resource.held
                   THEN [resource EXCEPT !.deleting = TRUE]
                   ELSE [resource EXCEPT !.exists = FALSE]
    /\ UNCHANGED <<memberships, rlast, now>>
    /\ WebhookIdle

Tick ==
    /\ now < MaxClock
    /\ now' = now + 1
    /\ UNCHANGED <<resource, memberships, rlast>>
    /\ WebhookIdle

NextReconcile ==
    ReconcileContact \/ ReconcileMembership \/ ChangeSpec \/ DeleteResource \/ Tick

SpecReconcile == InitReconcile /\ [][NextReconcile]_vars

(***************************************************************************)
(* Specification SpecHeld: the same for a record that carries a finalizer  *)
(* of another controller, which keeps it in the store after it is deleted  *)
(* until that controller lets go of it.                                    *)
(***************************************************************************)
InitHeld ==
    /\ signingSecret = SecretABC
    /\ StoreInit
    /\ VerifyIdle
    /\ resource \in {[r EXCEPT !.held = TRUE] :
                        r \in {n \in NewResources :
                                  \/ n.kind = "Contact" /\ n.name = NewsletterPrefix \o <<"x">>
                                  \/ n.kind = "Membership" /\ n.spec = RefsOf(ContactA, GroupH)}}
    /\ rlast = Nil
    /\ now = 0
    /\ ClientIdle
    /\ ServeIdle

\* The other controller removes its finalizer: a record that is being
\* deleted and carries no finalizer any more is purged.
ReleaseHold ==
    /\ resource.exists
    /\ resource.held
    /\ resource' = [resource EXCEPT !.held = FALSE,
                                    !.exists = ~(resource.deleting /\ ~resource.finalizer)]
    /\ UNCHANGED <<memberships, rlast, now>>
    /\ WebhookIdle

SpecHeld == InitHeld /\ [][NextReconcile \/ ReleaseHold]_vars

(***************************************************************************)
(* Specification SpecConverge: a Contact that is never deleted is edited a *)
(* bounded number of times and reconciled; the reconcile is run again and  *)
(* again, and the store and the remote provider keep answering some of     *)
(* these runs without an error.                                            *)
(***************************************************************************)
InitConverge == InitReconcile /\ resource.kind = "Contact"

\* A reconcile of the record in which every call is answered without error.
ReconcileAccepted ==
    /\ \E o \in {IF resource.kind = "Contact"
                  THEN ContactReconcile(resource, memberships,
                                        [get |-> "ok", write |-> "ok", remote |-> NoError,
                                         create |-> "ok"], now)
                  ELSE MembershipReconcile(contacts, groups, resource, memberships,
                                           [get |-> "ok", write |-> "ok",
                                            getContact |-> "ok", getGroup |-> "ok",
                                            remote |-> NoError], now)} :
          /\ resource' = o.resource
          /\ memberships' = o.memberships
          /\ rlast' = Recorded(o)
    /\ UNCHANGED now
    /\ WebhookIdle

SpecConverge ==
    InitConverge /\ [][ReconcileContact \/ ChangeSpec]_vars /\ WF_vars(ReconcileAccepted)

(***************************************************************************)
(* Specification SpecTeardown: a ContactGroupMembership and the Contact it *)
(* references are both being deleted and carry their finalizers; each is   *)
(* reconciled again and again, in any order, and the store and the remote  *)
(* provider keep answering some of these runs without an error.            *)
(***************************************************************************)
InitTeardown ==
    /\ signingSecret = SecretABC
    /\ StoreInit
    /\ VerifyIdle
    /\ resource \in {[r EXCEPT !.finalizer = TRUE, !.deleting = TRUE] :
                        r \in {n \in NewResources :
                                  n.kind = "Membership" /\ n.spec = RefsOf(ContactA, GroupH)}}
    /\ rlast = Nil
    /\ now = 0
    /\ ClientIdle
    /\ ServeIdle

\* A reconcile of the Contact the membership references, which is being
\* deleted and carries the finalizer: the store purges it when the
\* finalizer is done.
FinalizeContact(envs) ==
    /\ resource.kind = "Membership"
    /\ \E c \in {x \in contacts : RefTo(x) = resource.spec.contactRef}, env \in envs :
         \E o \in {ContactReconcile(
                      [kind |-> "Contact", exists |-> TRUE, name |-> c.name,
                       namespace |-> c.namespace, uid |-> c.uid, generation |-> 1,
                       deleting |-> TRUE, finalizer |-> TRUE, held |-> FALSE,
                       status |-> [conditions |-> << >>, ready |-> Nil,
                                   newsletter |-> Nil, providers |-> << >>]],
                      memberships, env, now)} :
            /\ EnvUsed(env, o.calls)
            /\ contacts' = IF o.resource.exists THEN contacts ELSE contacts \ {c}
    /\ UNCHANGED <<signingSecret, groups, memberships, removals, last, hist, vin,
                   vsigned, vres, resource, rlast, now, provider, clast, inflight>>

SpecTeardown ==
    /\ InitTeardown
    /\ [][ReconcileMembership \/ FinalizeContact(ContactEnvs)]_vars
    /\ WF_vars(ReconcileAccepted)
    /\ WF_vars(FinalizeContact({[get |-> "ok", write |-> "ok", remote |-> NoError,
                                  create |-> "ok"]}))

(***************************************************************************)
(* The Loops client (pkg/loops/sdk_client.go).  A request body is the JSON *)
(* object json.Marshal writes: a function from the member names present to *)
(* their values.  A mailing-list map is a set of [id, on] entries.  The    *)
(* provider answers each request with a status and a body, or the          *)
(* transport fails.                                                        *)
(***************************************************************************)
ContactRequest(email, userID, mailingLists) ==
    [Email |-> email, UserID |-> userID, MailingLists |-> mailingLists]

\* json.Marshal of a ContactRequest: every member is tagged omitempty, so an
\* empty string or an empty map leaves its member out.
MarshalContactRequest(req) ==
    LET present == {k \in {"email", "userId", "mailingLists"} :
                       \/ k = "email" /\ req.Email # ""
                       \/ k = "userId" /\ req.UserID # ""
                       \/ k = "mailingLists" /\ req.MailingLists # {}}
    IN  [k \in present |-> IF k = "email" THEN req.Email
                           ELSE IF k = "userId" THEN req.UserID
                           ELSE req.MailingLists]

\* json.Decode into a ContactRequest: a member left out is the zero value.
DecodeContactRequest(body) ==
    ContactRequest(IF "email" \in DOMAIN body THEN body["email"] ELSE "",
                   IF "userId" \in DOMAIN body THEN body["userId"] ELSE "",
                   IF "mailingLists" \in DOMAIN body THEN body["mailingLists"] ELSE {})

IsConflict(err) == isErrorStatus(err, 409)

\* sendRequest: the request it sends and the error it returns on answer.
sendRequest(method, path, body, answer) ==
    [request |-> [method |-> method, path |-> path, body |-> body],
     err |-> IF ~answer.transport THEN [api |-> FALSE, StatusCode |-> 0, Body |-> "timeout"]
             ELSE IF answer.StatusCode >= 400
             THEN ApiError(answer.StatusCode, answer.Body)
             ELSE IF ~answer.decodable THEN [api |-> FALSE, StatusCode |-> 0, Body |-> "decode"]
             ELSE NoError]

\* The client's operations: [requests, err].
ClientResult(sent) == [requests |-> <<sent.request>>, err |-> sent.err]

UpsertContact(req, answer) ==
    ClientResult(sendRequest("PUT", "/contacts/update", MarshalContactRequest(req), answer))

ClientDeleteContact(userID, answer) ==
    LET \* json.Marshal of a DeleteContactRequest: userId is always written.
        MarshalDeleteContactRequest == [k \in {"userId"} |-> userID]
    IN  ClientResult(sendRequest("POST", "/contacts/delete",
                                 MarshalDeleteContactRequest, answer))

AddToMailingList(userID, listID, answer) ==
    UpsertContact(ContactRequest("", userID, {[id |-> listID, on |-> TRUE]}), answer)

\* A removal that sets the flag it is to clear.
RemoveFromMailingListSetsFlag(userID, listID, answer) ==
    AddToMailingList(userID, listID, answer)

RemoveFromMailingList(userID, listID, answer) ==
    UpsertContact(ContactRequest("", userID, {[id |-> listID, on |-> FALSE]}), answer)

(***************************************************************************)
(* Specification SpecClient: the client's operations are called one after  *)
(* another against the provider, which keeps for each contact the flag of  *)
(* each mailing list and applies the requests it answers with 2xx.         *)
(***************************************************************************)
ClientUserIDs == {"", "1"}
ClientListIDs == {"7", "8"}

ClientCall(c, answer) ==
    IF c.op = "UpsertContact"
    THEN UpsertContact(ContactRequest(c.email, c.userID, {}), answer)
    ELSE IF c.op = "DeleteContact" THEN ClientDeleteContact(c.userID, answer)
    ELSE IF c.op = "AddToMailingList" THEN AddToMailingList(c.userID, c.listID, answer)
    ELSE RemoveFromMailingList(c.userID, c.listID, answer)

\* The provider applies a request: an update creates the contact named by
\* userId and sets the flags the request carries; a delete removes it.
ProviderApply(state, request) ==
    IF request.path = "/contacts/update"
    THEN LET req == DecodeContactRequest(request.body)
         IN  IF req.UserID \notin DOMAIN state THEN state
             ELSE [state EXCEPT ![req.UserID] =
                      [exists |-> TRUE,
                       lists |-> [l \in ClientListIDs |->
                                     IF [id |-> l, on |-> TRUE] \in req.MailingLists
                                     THEN "on"
                                     ELSE IF [id |-> l, on |-> FALSE] \in req.MailingLists
                                     THEN "off"
                                     ELSE state[req.UserID].lists[l]]]]
    ELSE IF request.body["userId"] \in DOMAIN state
    THEN [state EXCEPT ![request.body["userId"]] = ([exists |-> FALSE, lists |-> [l \in ClientListIDs |-> "unset"]])]
    ELSE state

\* The provider answers 2xx only a request that carries a userId.
ProviderAccepts(request, answer) ==
    (answer.transport /\ answer.StatusCode \in 200..299)
        => ("userId" \in DOMAIN request.body /\ request.body["userId"] # "")

ProviderApplied(answer) == answer.transport /\ answer.StatusCode \in 200..299

InitClient ==
    /\ signingSecret = SecretABC
    /\ contacts = {}
    /\ groups = {}
    /\ memberships = {}
    /\ removals = {}
    /\ last = Nil
    /\ hist = << >>
    /\ VerifyIdle
    /\ ReconcileIdle
    /\ ServeIdle
    /\ provider = [u \in ClientUserIDs \ {""} |-> ([exists |-> FALSE, lists |-> [l \in ClientListIDs |-> "unset"]])]
    /\ clast = Nil

\* One call of the client, answered by the provider.
CallClient ==
    LET
        ClientAnswers ==
            [transport : {TRUE}, StatusCode : {200, 300, 400, 404, 409, 500},
             Body : {"b"}, decodable : BOOLEAN]
            \cup {[transport |-> FALSE, StatusCode |-> 0, Body |-> "", decodable |-> FALSE]}
        ClientCalls ==
            [op : {"UpsertContact"}, email : {"", "e"}, userID : ClientUserIDs, listID : {""}]
            \cup [op : {"DeleteContact"}, email : {""}, userID : ClientUserIDs, listID : {""}]
            \cup [op : {"AddToMailingList", "RemoveFromMailingList"}, email : {""},
                  userID : ClientUserIDs, listID : ClientListIDs]
    IN
    /\ \E c \in ClientCalls, answer \in ClientAnswers :
         \E r \in {ClientCall(c, answer)} :
            /\ ProviderAccepts(r.requests[1], answer)
            /\ provider' = IF ProviderApplied(answer)
                           THEN ProviderApply(provider, r.requests[1])
                           ELSE provider
            /\ clast' = [call |-> c, requests |-> r.requests, answer |-> answer,
                         err |-> r.err,
                         repeated |-> /\ clast # Nil
                                      /\ clast.call = c
                                      /\ ProviderApplied(clast.answer),
                         changed |-> provider' # provider]
    /\ UNCHANGED <<signingSecret, contacts, groups, memberships, removals, last, hist,
                   vin, vsigned, vres, resource, rlast, now, inflight>>

SpecClient == InitClient /\ [][CallClient]_vars

(***************************************************************************)
(* Specification SpecConcurrent: ServeHTTP runs for several requests at    *)
(* once (net/http serves each request on a goroutine of its own).  A       *)
(* request first makes its three lookups, then its writes; the writes of   *)
(* other requests may come between the two.                                *)
(***************************************************************************)
MaxInflight == 2

\* The handler's lookups, up to the tombstone lookup.
BeginRequest ==
    /\ Len(inflight) < MaxInflight
    /\ Cardinality(memberships) + Cardinality(removals) + Len(inflight) < MaxObjects
    /\ \E kind \in {"subscribed", "unsubscribed"}, userUID \in {"1", "2"}, listID \in {"7"} :
         \E l \in Lookups(userUID, listID) :
            inflight' = Append(inflight, [req |-> MakeRequest(kind, userUID, listID),
                                          lookup |-> l])
    /\ UNCHANGED <<signingSecret, contacts, groups, memberships, removals, last, hist,
                   vin, vsigned, vres, resource, rlast, now, provider, clast>>

\* The rest of the handler, from the first write to the response, on the
\* store as it is by now.
FinishRequest ==
    /\ \E i \in 1..Len(inflight), fail \in StoreOps \cup {"none"} :
         \E f \in {inflight[i]} :
            \E o \in {Handle(f.req, [memberships |-> memberships, removals |-> removals],
                             fail, f.lookup.contact, f.lookup.group, f.lookup.removal)} :
                /\ fail \in {"none", o.failed}
                /\ fail \notin {"listContacts", "listGroups", "listRemovals"}
                /\ memberships' = o.memberships
                /\ removals' = o.removals
                /\ last' = [http |-> Nil, req |-> f.req, handled |-> TRUE,
                            verify |-> "none", resp |-> o.resp,
                            calls |-> o.calls, failed |-> fail,
                            lookup |-> f.lookup,
                            before |-> [memberships |-> memberships,
                                        removals |-> removals]]
                /\ inflight' = SubSeq(inflight, 1, i - 1)
                                  \o SubSeq(inflight, i + 1, Len(inflight))
    /\ UNCHANGED <<signingSecret, contacts, groups, hist, vin, vsigned, vres,
                   resource, rlast, now, provider, clast>>

NextConcurrent == BeginRequest \/ FinishRequest

SpecConcurrent == Init /\ [][NextConcurrent]_vars

(***************************************************************************)
(* Specification SpecPair: one subscribed and one unsubscribed request for *)
(* the same contact and group, each in its own goroutine, taking one store *)
(* step at a time (the lookups, the removal's delete, the create) with the *)
(* store answering every call.  A task of inflight carries its position pc *)
(* and, once it has answered, its response; last keeps the store the two   *)
(* requests started from and hist the store steps taken, in order.         *)
(***************************************************************************)
InitPair ==
    /\ signingSecret = SecretABC
    /\ VerifyIdle
    /\ ReconcileIdle
    /\ ClientIdle
    /\ contacts = {ContactA, ContactB}
    /\ groups = {GroupG, GroupH, GroupK}
    /\ hist = << >>
    /\ \E userUID \in {"1", "2"}, listID \in {"7", "8"} :
         \E c \in ListContactsByProviderID(contacts, userUID),
            g \in ListGroupsByProviderID(groups, listID) :
            LET o0 == NewRefObject({}, c, g)
                o1 == NewRefObject({o0}, c, g)
                task(kind) == [req |-> MakeRequest(kind, userUID, listID),
                               lookup |-> Nil, pc |-> "lookup", resp |-> 0]
            IN  /\ memberships \in {{}, {o0}}
                /\ removals \in {{}, {o0}, {o0, o1}}
                /\ inflight = <<task("subscribed"), task("unsubscribed")>>
    /\ last = [before |-> [memberships |-> memberships, removals |-> removals]]

\* An unsubscribed request that deletes the removal it finds and creates a
\* new one.
AfterLookupUnsubscribedDeletes(task, l) ==
    IF l.contact = Nil \/ l.group = Nil
    THEN [task EXCEPT !.lookup = l, !.pc = "done", !.resp = BadRequestResponse]
    ELSE [task EXCEPT !.lookup = l,
                      !.pc = IF l.removal # Nil THEN "delete" ELSE "create"]

\* Where a request stands once its three lookups have returned l: a
\* subscribed request deletes the removal found, or goes on to the create; an
\* unsubscribed request answers 200 when a removal is found, or goes on to
\* the create.
AfterLookup(task, l) ==
    IF l.contact = Nil \/ l.group = Nil
    THEN [task EXCEPT !.lookup = l, !.pc = "done", !.resp = BadRequestResponse]
    ELSE IF task.req.MailingListSubscribedEvent # Nil
         THEN [task EXCEPT !.lookup = l,
                           !.pc = IF l.removal # Nil THEN "delete" ELSE "create"]
         ELSE IF l.removal # Nil
              THEN [task EXCEPT !.lookup = l, !.pc = "done", !.resp = OkResponse]
              ELSE [task EXCEPT !.lookup = l, !.pc = "create"]

\* The lookups of one request: contact, group and removal.
LookupStep ==
    /\ \E i \in 1..Len(inflight) :
         /\ inflight[i].pc = "lookup"
         /\ \E l \in Lookups(inflight[i].req.BaseEvent.ContactIdentity.UserID,
                             RequestGroupID(inflight[i].req)) :
               inflight' = [inflight EXCEPT ![i] = AfterLookup(@, l)]
         /\ hist' = Append(hist, [task |-> i, op |-> "lookup"])
    /\ UNCHANGED <<signingSecret, contacts, groups, memberships, removals, last,
                   vin, vsigned, vres, resource, rlast, now, provider, clast>>

\* The delete of the removal a request found, on the store as it is by now.
DeleteStep ==
    /\ \E i \in 1..Len(inflight) :
         /\ inflight[i].pc = "delete"
         /\ LET del == deleteContactGroupMembershipRemoval(
                           [memberships |-> memberships, removals |-> removals],
                           inflight[i].lookup.removal, "none")
            IN  /\ removals' = del.objects
                /\ inflight' = [inflight EXCEPT ![i] =
                                   IF del.err # ""
                                   THEN [@ EXCEPT !.pc = "done",
                                                  !.resp = InternalServerErrorResponse]
                                   ELSE [@ EXCEPT !.pc = "create"]]
         /\ hist' = Append(hist, [task |-> i, op |-> "delete"])
    /\ UNCHANGED <<signingSecret, contacts, groups, memberships, last,
                   vin, vsigned, vres, resource, rlast, now, provider, clast>>

\* The create that ends a request: the membership of a subscribed request,
\* the removal of an unsubscribed one.
CreateStep ==
    /\ \E i \in 1..Len(inflight) :
         /\ inflight[i].pc = "create"
         /\ LET st == [memberships |-> memberships, removals |-> removals]
                f == inflight[i]
                subscribed == f.req.MailingListSubscribedEvent # Nil
                cr == IF subscribed
                      THEN createContactGroupMembership(st, f.lookup.contact,
                                                        f.lookup.group, "none")
                      ELSE createContactGroupMembershipRemoval(st, f.lookup.contact,
                                                               f.lookup.group, "none")
                failed == IF subscribed
                          THEN cr.err # "" /\ cr.err # "AlreadyExists"
                          ELSE cr.err # ""
            IN  /\ memberships' = IF subscribed THEN cr.objects ELSE memberships
                /\ removals' = IF subscribed THEN removals ELSE cr.objects
                /\ inflight' = [inflight EXCEPT ![i] =
                                   [@ EXCEPT !.pc = "done",
                                             !.resp = IF failed
                                                      THEN InternalServerErrorResponse
                                                      ELSE OkResponse]]
         /\ hist' = Append(hist, [task |-> i, op |-> "create"])
    /\ UNCHANGED <<signingSecret, contacts, groups, last,
                   vin, vsigned, vres, resource, rlast, now, provider, clast>>

SpecPair == InitPair /\ [][LookupStep \/ DeleteStep \/ CreateStep]_vars

(***************************************************************************)
(* Properties.  The resolvable contact and group of a request are stated   *)
(* from the objects' fields, apart from the index functions.               *)
(***************************************************************************)
ContactsWithUID(uid) == {c \in contacts : c.uid = uid}

GroupsWithLoopsID(id) ==
    {g \in groups : \E i \in 1..Len(g.providers) :
                       g.providers[i].name = "Loops" /\ g.providers[i].id = id}

HistN == Len(hist)

SamePair(e1, e2) == e1.contact = e2.contact /\ e1.group = e2.group

\* C1: handling the subscribed event twice in a row for the same (contact,
\* group) leaves exactly one ContactGroupMembership for the pair and no
\* ContactGroupMembershipRemoval for it.
C1_SubscribedTwiceOneMembership ==
    (/\ HistN >= 2
     /\ hist[HistN].kind = "subscribed"
     /\ hist[HistN - 1].kind = "subscribed"
     /\ SamePair(hist[HistN], hist[HistN - 1]))
    => /\ Cardinality(ObjectsFor(memberships, hist[HistN].contact, hist[HistN].group)) = 1
       /\ ObjectsFor(removals, hist[HistN].contact, hist[HistN].group) = {}

\* C2: handling the unsubscribed event twice in a row for the same (contact,
\* group) leaves exactly one ContactGroupMembershipRemoval for the pair and
\* creates no ContactGroupMembership.
C2_UnsubscribedTwiceOneRemoval ==
    (/\ HistN >= 2
     /\ hist[HistN].kind = "unsubscribed"
     /\ hist[HistN - 1].kind = "unsubscribed"
     /\ SamePair(hist[HistN], hist[HistN - 1]))
    => /\ Cardinality(ObjectsFor(removals, hist[HistN].contact, hist[HistN].group)) = 1
       /\ Cardinality(ObjectsFor(memberships, hist[HistN].contact, hist[HistN].group))
              = hist[HistN - 1].mBefore

\* The case of C3: subscribed, unsubscribed, subscribed in a row for one
\* pair that had no membership and no removal at the start.
RoundTripDone ==
    /\ HistN = 3
    /\ hist[1].kind = "subscribed"
    /\ hist[2].kind = "unsubscribed"
    /\ hist[3].kind = "subscribed"
    /\ SamePair(hist[1], hist[2])
    /\ SamePair(hist[2], hist[3])
    /\ hist[1].mBefore = 0
    /\ hist[1].rBefore = 0

\* C3: from no membership and no removal for a pair, subscribed then
\* unsubscribed then subscribed ends with a membership for the pair and no
\* removal for it.
C3_RoundTrip ==
    RoundTripDone
    => /\ ObjectsFor(memberships, hist[3].contact, hist[3].group) # {}
       /\ ObjectsFor(removals, hist[3].contact, hist[3].group) = {}

C3_Witness == RoundTripDone /\ last.resp = OkResponse

(***************************************************************************)
(* The request handled last, for the properties of one request.            *)
(***************************************************************************)
LastIsHTTP == last # Nil /\ last.http # Nil

LastHandled == last # Nil /\ last.handled

LastVerify ==
    verifyWebhook(last.http.eventID, last.http.timestamp, last.http.signature,
                  last.http.body, signingSecret)

LastUserID == last.req.BaseEvent.ContactIdentity.UserID

LastListID == RequestGroupID(last.req)

LastSubscribed == LastHandled /\ last.req.MailingListSubscribedEvent # Nil

LastUnsubscribed == LastHandled /\ last.req.MailingListUnsubscribedEvent # Nil

LastResolvable ==
    ContactsWithUID(LastUserID) # {} /\ GroupsWithLoopsID(LastListID) # {}

LastContact == CHOOSE c \in contacts : c.uid = LastUserID

LastGroup == CHOOSE g \in GroupsWithLoopsID(LastListID) : TRUE

StoreUntouched ==
    /\ memberships = last.before.memberships
    /\ removals = last.before.removals

\* C4: a correctly signed subscribed event whose ids resolve is answered 200
\* and creates exactly one ContactGroupMembership naming that contact and
\* group (the store answering every call); a removal of the pair is deleted,
\* and deleted before the membership is created: when the delete fails no
\* membership is created, and when the create fails the removal is gone.
C4_SubscribedCreatesMembership ==
    (LastIsHTTP /\ LastSubscribed /\ LastVerify = "OK" /\ LastResolvable)
    => LET created == memberships \ last.before.memberships
       IN  /\ last.failed = "none" =>
                /\ last.resp = OkResponse
                /\ last.before.memberships \subseteq memberships
                /\ Cardinality(created) = 1
                /\ \A m \in created : m.spec = RefsOf(LastContact, LastGroup)
                /\ ObjectsFor(removals, LastContact, LastGroup) = {}
                /\ removals \subseteq last.before.removals
           /\ last.failed = "deleteRemoval" =>
                /\ last.resp = InternalServerErrorResponse
                /\ StoreUntouched
           /\ last.failed = "createMembership" =>
                /\ last.resp = InternalServerErrorResponse
                /\ created = {}
                /\ ObjectsFor(removals, LastContact, LastGroup) = {}

C4_Witness ==
    /\ LastIsHTTP /\ LastSubscribed /\ LastVerify = "OK" /\ LastResolvable
    /\ last.resp = OkResponse
    /\ ObjectsFor(last.before.removals, LastContact, LastGroup) # {}
    /\ Cardinality(memberships \ last.before.memberships) = 1

\* C5: a request whose signature does not verify never reaches the handler
\* and causes no store call and no change of the store; a POST whose body
\* was read is answered 401 whatever its payload.
C5_UnverifiedRejected ==
    (LastIsHTTP /\ LastVerify # "OK")
    => /\ ~last.handled
       /\ last.calls = 0
       /\ StoreUntouched
       /\ (last.http.method = "POST" /\ ~last.http.readErr)
             => last.resp = UnauthorizedResponse

C5_Witness ==
    /\ LastIsHTTP
    /\ last.http.method = "POST"
    /\ LastVerify = "INVALID_SIGNATURE"
    /\ UnmarshalMailingListEvent(last.http.body).ok
    /\ ContactsWithUID(BodyID(last.http.body[2])) # {}
    /\ GroupsWithLoopsID(BodyID(last.http.body[3])) # {}
    /\ last.resp = UnauthorizedResponse

\* Whether a verified body is one the pipeline answers 400 without the
\* handler: not JSON, an unknown event name, or a malformed typed payload.
LastBodyRejected ==
    \/ ~UnmarshalWebhookEvent(last.http.body).ok
    \/ UnmarshalWebhookEvent(last.http.body).event.EventName
           \notin {EventNameMailingListSubscribed, EventNameMailingListUnsubscribed}
    \/ ~UnmarshalMailingListEvent(last.http.body).ok

\* C6: the pipeline checks method, then signature, then the event: a
\* non-POST request gets 405 even with an invalid signature; a POST with an
\* invalid signature gets 401 even with an unparsable body or an unknown
\* event name; a verified POST with an unknown event name or a malformed
\* payload gets 400 and the handler is not invoked.
C6_PipelineOrder ==
    LastIsHTTP
    => /\ last.http.method # "POST" => last.resp = MethodNotAllowedResponse
       /\ (last.http.method = "POST" /\ ~last.http.readErr /\ LastVerify # "OK")
             => last.resp = UnauthorizedResponse
       /\ (last.http.method = "POST" /\ ~last.http.readErr /\ LastVerify = "OK"
             /\ LastBodyRejected)
             => (last.resp = BadRequestResponse /\ ~last.handled /\ last.calls = 0)

C6_Witness ==
    /\ LastIsHTTP
    /\ last.http.method # "POST"
    /\ LastVerify # "OK"
    /\ last.http.body = <<"{">>
    /\ last.resp = MethodNotAllowedResponse

\* The ids of the request handled last do not resolve.
LastUnresolvable ==
    \/ LastUserID = ""
    \/ ContactsWithUID(LastUserID) = {}
    \/ LastListID = ""
    \/ GroupsWithLoopsID(LastListID) = {}

\* C7: a verified subscribed or unsubscribed event with an empty userId, a
\* userId matching no Contact, an empty mailingList.id or a mailingList.id
\* matching no ContactGroup creates and deletes no membership and no removal,
\* and is answered 400 (the lookups answering).
C7_UnresolvableIsBadRequest ==
    (LastIsHTTP /\ LastHandled /\ LastVerify = "OK" /\ LastUnresolvable)
    => /\ StoreUntouched
       /\ last.failed = "none" => last.resp = BadRequestResponse

C7_Witness ==
    /\ LastIsHTTP /\ LastHandled /\ LastVerify = "OK"
    /\ ContactsWithUID(LastUserID) # {}
    /\ LastListID # ""
    /\ GroupsWithLoopsID(LastListID) = {}
    /\ last.resp = BadRequestResponse
    /\ memberships # {}

\* C8: handling an unsubscribed event leaves the ContactGroupMembership
\* records as they were, whatever the outcome.
C8_UnsubscribedKeepsMemberships ==
    LastUnsubscribed => memberships = last.before.memberships

C8_Witness ==
    /\ LastUnsubscribed
    /\ LastResolvable
    /\ ObjectsFor(memberships, LastContact, LastGroup) # {}
    /\ last.resp = OkResponse
    /\ removals # last.before.removals

(***************************************************************************)
(* Properties of verifyWebhook.                                            *)
(***************************************************************************)
\* An entry of the form version,digest whose digest is exactly the signature.
SignatureMatchesExact(sig, signature) ==
    \E i \in 1..Len(sig) : sig[i] = "," /\ SubSeq(sig, i + 1, Len(sig)) = signature

VHeadersPresent ==
    vin.eventID # << >> /\ vin.timestamp # << >> /\ vin.signature # << >>

\* C9: with the three headers present and a well-formed secret, verifyWebhook
\* accepts iff some space-separated entry of webhook-signature is
\* version,digest with digest exactly the base64 HMAC-SHA256 of
\* eventID.timestamp.body; an entry with extra characters after the digest is
\* rejected.
C9_ExactDigestOnly ==
    (vres # "none" /\ VHeadersPresent /\ ValidSecret(vin.secret))
    => LET sigs == Split(vin.signature, " ")
           expected == ExpectedSignature(vin.secret, vin.eventID, vin.timestamp, vin.body)
       IN  (vres = "OK") <=> (\E k \in 1..Len(sigs) : SignatureMatchesExact(sigs[k], expected))

\* The request under verification against the one its header was generated for.
VCurrent == <<vin.eventID, vin.timestamp, vin.body>>

VChanged == {i \in 1..3 : VCurrent[i] # vsigned[i]}

RBadRequest(e) == e # NoError /\ e.api /\ e.StatusCode = 400

RNotFound(e) == e # NoError /\ e.api /\ e.StatusCode = 404

\* The name of the Contact reconciled last starts with "newsletter-".
RNewsletterName ==
    /\ Len(rlast.before.name) >= 11
    /\ SubSeq(rlast.before.name, 1, 11) = NewsletterPrefix

RemoteCalls ==
    {"UpsertContact", "DeleteContact", "AddToMailingList", "RemoveFromMailingList"}

StoreCalls == {"Get", "Update", "Create", "StatusPatch", "GetContact", "GetGroup"}

\* The calls of the last reconcile to one of ops, as positions in its calls.
RCalls(ops) == {i \in 1..Len(rlast.calls) : rlast.calls[i].op \in ops}

RCall(op) == rlast.calls[CHOOSE i \in RCalls({op}) : TRUE]

\* The last reconcile read its record (a Contact, a ContactGroupMembership).
RRead(kind) ==
    /\ rlast # Nil
    /\ rlast.kind = kind
    /\ rlast.before.exists
    /\ rlast.calls[1].res = "ok"

\* Every call to the store answered without an error.
RStoreAnswers ==
    \A i \in RCalls(StoreCalls) : rlast.calls[i].res \in {"ok", "AlreadyExists"}

\* The last reconcile went past the finalizers: the record carries the
\* finalizer and is not being deleted.
RSettled == rlast.before.finalizer /\ ~rlast.before.deleting

RReady == rlast.before.status.ready

\* The condition without its transition time.
SameCondition(cond, status, reason, generation) ==
    /\ cond # Nil
    /\ cond.status = status
    /\ cond.reason = reason
    /\ cond.observedGeneration = generation

\* C11: reconciling a Contact that carries the finalizer, is not being
\* deleted, and whose Ready condition has reason Created or Updated with
\* observedGeneration equal to the generation makes no call to the remote
\* provider.
C11_ConvergedNoRemoteCall ==
    (/\ RRead("Contact")
     /\ RSettled
     /\ RReady # Nil
     /\ RReady.reason \in {LoopsContactCreatedReason, LoopsContactUpdatedReason}
     /\ RReady.observedGeneration = rlast.before.generation)
    => RCalls(RemoteCalls) = {}

C11_Witness ==
    /\ RRead("Contact")
    /\ RSettled
    /\ RReady # Nil
    /\ RReady.reason = LoopsContactUpdatedReason
    /\ RReady.observedGeneration = rlast.before.generation
    /\ RNewsletterName
    /\ RCalls({"Create"}) # {}

\* What C12 says of a reconcile of a Contact with no Ready condition: one
\* UpsertContact call and, when it succeeds and the store takes the patch,
\* the stored status Ready=True/Created for the current generation with
\* providers = [{Loops, UID}].
C12_Outcome ==
    /\ Cardinality(RCalls({"UpsertContact"})) = 1
    /\ RCall("UpsertContact").arg = rlast.before.uid
    /\ (RCall("UpsertContact").res = NoError /\ RStoreAnswers)
          => /\ SameCondition(rlast.after.status.ready, "True",
                              LoopsContactCreatedReason, rlast.before.generation)
             /\ rlast.after.status.providers
                   = << [name |-> "Loops", id |-> rlast.before.uid] >>

\* C12 as stated: reconciling a Contact that has no Ready condition calls
\* UpsertContact exactly once and on success stores Ready=True/Created,
\* observedGeneration = generation, providers = [{Loops, UID}].
C12_AnyContactUpsertsOnce ==
    (RRead("Contact") /\ RReady = Nil) => C12_Outcome

\* C12 amended: the same for a Contact that carries the finalizer and is not
\* being deleted.
C12_SettledContactUpsertsOnce ==
    (RRead("Contact") /\ RSettled /\ RReady = Nil) => C12_Outcome

C12_Witness ==
    /\ RRead("Contact") /\ RSettled /\ RReady = Nil
    /\ RCall("UpsertContact").res = NoError
    /\ rlast.patched
    /\ rlast.after.status.providers # << >>

\* C13: when UpsertContact answers bad-request for a Contact with no Ready
\* condition or reason NotCreated, the status becomes Ready=False/NotCreated
\* with the error's message, providers stay as they were, no requeue is
\* asked and (the store answering) no error is returned and the status is
\* stored; any other Upsert error in this state is returned and nothing is
\* stored.
C13_BadRequestOnCreate ==
    (/\ RRead("Contact")
     /\ RCalls({"UpsertContact"}) # {}
     /\ (RReady = Nil \/ RReady.reason = LoopsContactNotCreatedReason))
    => LET e == RCall("UpsertContact").res
       IN  /\ RBadRequest(e) =>
                /\ SameCondition(rlast.computed.ready, "False",
                                 LoopsContactNotCreatedReason, rlast.before.generation)
                /\ rlast.computed.ready.message = <<"not created", ErrorText(e)>>
                /\ rlast.computed.providers = rlast.before.status.providers
                /\ ~rlast.requeue
                /\ RStoreAnswers => (~rlast.err /\ rlast.after.status = rlast.computed)
           /\ (e # NoError /\ ~RBadRequest(e)) =>
                (rlast.err /\ rlast.after = rlast.before /\ RCalls({"StatusPatch"}) = {})

C13_Witness ==
    /\ RRead("Contact")
    /\ RCalls({"UpsertContact"}) # {}
    /\ RReady = Nil
    /\ RBadRequest(RCall("UpsertContact").res)
    /\ rlast.patched
    /\ ~rlast.err

\* The Ready condition is there with a reason other than NotCreated and an
\* observedGeneration that is not the generation.
RStale ==
    /\ RReady # Nil
    /\ RReady.reason # LoopsContactNotCreatedReason
    /\ RReady.observedGeneration # rlast.before.generation

\* What C14 says of a reconcile of such a Contact: one UpsertContact call;
\* bad-request gives Ready=False/NotUpdated and (the store answering) no
\* error; any other error is returned and nothing is stored; success gives
\* Ready=True/Updated; in the two outcomes that are not escalated
\* observedGeneration becomes the generation.
C14_Outcome ==
    /\ Cardinality(RCalls({"UpsertContact"})) = 1
    /\ LET e == RCall("UpsertContact").res
           cond == rlast.computed.ready
       IN  /\ RBadRequest(e) =>
                /\ SameCondition(cond, "False", LoopsContactNotUpdatedReason,
                                 rlast.before.generation)
                /\ RStoreAnswers => (~rlast.err /\ rlast.after.status = rlast.computed)
           /\ (e # NoError /\ ~RBadRequest(e)) =>
                (rlast.err /\ rlast.after = rlast.before)
           /\ e = NoError =>
                /\ SameCondition(cond, "True", LoopsContactUpdatedReason,
                                 rlast.before.generation)
                /\ RStoreAnswers => (~rlast.err /\ rlast.after.status = rlast.computed)

\* C14 as stated, for every Contact whose Ready condition is stale.
C14_AnyStaleContactUpserts ==
    (RRead("Contact") /\ RStale) => C14_Outcome

\* C14 amended: the same for a Contact that is not being deleted.
C14_LiveStaleContactUpserts ==
    (RRead("Contact") /\ ~rlast.before.deleting /\ RStale) => C14_Outcome

C14_Witness ==
    /\ RRead("Contact") /\ ~rlast.before.deleting /\ RStale
    /\ RBadRequest(RCall("UpsertContact").res)
    /\ rlast.patched
    /\ rlast.after.status.ready.reason = LoopsContactNotUpdatedReason
    /\ rlast.after.status.ready.observedGeneration = rlast.before.generation

\* C15: once a bad-request is recorded in a Contact's status (reason
\* NotCreated or NotUpdated, for the current generation), a later reconcile
\* of the Contact makes no UpsertContact call while the generation stays.
C15_BadRequestNotRetried ==
    (/\ RRead("Contact")
     /\ RSettled
     /\ RReady # Nil
     /\ RReady.reason \in {LoopsContactNotCreatedReason, LoopsContactNotUpdatedReason}
     /\ RReady.observedGeneration = rlast.before.generation)
    => RCalls({"UpsertContact"}) = {}

\* C16: reconciling a Contact that is being deleted and carries the
\* finalizer calls DeleteContact once with the Contact's UID and nothing
\* else of the remote provider; on success or not-found the finalizer is
\* removed and (the store taking the update) the record is purged and no
\* error is returned; on any other error the record stays as it was, with
\* its finalizer, no update is made and the error is returned.
C16_FinalizerDeletesRemote ==
    (RRead("Contact") /\ rlast.before.deleting /\ rlast.before.finalizer)
    => /\ Cardinality(RCalls(RemoteCalls)) = 1
       /\ RCalls({"DeleteContact"}) # {}
       /\ LET e == RCall("DeleteContact")
          IN  /\ e.arg = rlast.before.uid
              /\ (e.res = NoError \/ RNotFound(e.res)) =>
                   /\ RCalls({"Update"}) # {}
                   /\ RStoreAnswers => (~rlast.after.exists /\ ~rlast.err)
              /\ (e.res # NoError /\ ~RNotFound(e.res)) =>
                   /\ rlast.after = rlast.before
                   /\ rlast.after.exists /\ rlast.after.finalizer
                   /\ RCalls({"Update"}) = {}
                   /\ rlast.err

C16_Witness ==
    /\ RRead("Contact") /\ rlast.before.deleting /\ rlast.before.finalizer
    /\ RNotFound(RCall("DeleteContact").res)
    /\ ~rlast.after.exists
    /\ ~rlast.err

\* The state machine of the last Contact reconcile did not return an error.
RNotEscalated ==
    \A i \in RCalls({"UpsertContact"}) :
        rlast.calls[i].res = NoError \/ RBadRequest(rlast.calls[i].res)

RNewsLetterDue ==
    /\ RNewsletterName
    /\ ~(/\ rlast.before.status.newsletter # Nil
         /\ rlast.before.status.newsletter.status = "True")

\* What C17 says of a reconcile of a newsletter Contact whose NewsLetterAdded
\* condition is not True: one create of a ContactGroupMembership for the
\* contact and the configured newsletter group; AlreadyExists changes no
\* condition and (the store answering) returns no error; any other failure
\* sets NewsLetterAdded=False with the message and returns an error.
C17_Outcome ==
    /\ Cardinality(RCalls({"Create"})) = 1
    /\ LET cr == RCall("Create")
       IN  /\ cr.arg.spec = RefsOf(rlast.before, NewsLetterContactGroup)
           /\ cr.res = "AlreadyExists" =>
                /\ rlast.computed.newsletter = rlast.before.status.newsletter
                /\ RStoreAnswers => ~rlast.err
           /\ cr.res = "err" =>
                /\ SameCondition(rlast.computed.newsletter, "False",
                                 NewsLetterNotAddedReason, rlast.before.generation)
                /\ rlast.computed.newsletter.message = <<"not added">>
                /\ rlast.err
           /\ cr.res = "ok" =>
                SameCondition(rlast.computed.newsletter, "True", NewsLetterAddedReason,
                              rlast.before.generation)

\* A Contact without the prefix, or with NewsLetterAdded True, has no create.
C17_NoCreateOtherwise ==
    (RRead("Contact") /\ ~RNewsLetterDue) => RCalls({"Create"}) = {}

\* C17 as stated, for every newsletter Contact whose NewsLetterAdded
\* condition is not True.
C17_AnyNewsletterContactCreates ==
    /\ (RRead("Contact") /\ RNewsLetterDue) => C17_Outcome
    /\ C17_NoCreateOtherwise

\* C17 amended: the create is attempted when the Contact carries the
\* finalizer, is not being deleted and its UpsertContact call, if any, did
\* not fail with an escalated error.
C17_SettledNewsletterContactCreates ==
    /\ (RRead("Contact") /\ RSettled /\ RNotEscalated /\ RNewsLetterDue) => C17_Outcome
    /\ C17_NoCreateOtherwise

C17_Witness ==
    /\ RRead("Contact") /\ RSettled /\ RNotEscalated /\ RNewsLetterDue
    /\ RCall("Create").res = "AlreadyExists"
    /\ ~rlast.err

\* A status without the transition times of its conditions.
StatusSansTime(st) ==
    [f \in DOMAIN st |->
        IF f \in {"providers", "conditions"} THEN st[f]
        ELSE IF st[f] = Nil THEN Nil
        ELSE [st[f] EXCEPT !.lastTransitionTime = 0]]

\* C18: a reconcile, of a Contact or of a ContactGroupMembership, patches
\* the status iff the status it computed differs from the status it read,
\* and patches the computed status; a reconcile whose conditions come out
\* with the same status, reason, message and observedGeneration, and the
\* same providers, patches nothing.
C18_PatchIffStatusChanged ==
    rlast # Nil
    => /\ (RCalls({"StatusPatch"}) # {}) <=> (rlast.computed # rlast.before.status)
       /\ \A i \in RCalls({"StatusPatch"}) : rlast.calls[i].arg = rlast.computed
       /\ StatusSansTime(rlast.computed) = StatusSansTime(rlast.before.status)
             => RCalls({"StatusPatch"}) = {}

C18_Witness ==
    /\ RRead("Membership")
    /\ RCalls({"AddToMailingList"}) # {}
    /\ RCall("AddToMailingList").res # NoError
    /\ RReady # Nil
    /\ RReady.lastTransitionTime < rlast.at
    /\ RCalls({"StatusPatch"}) = {}
    /\ rlast.err

\* The Contact and the ContactGroup the membership of the last reconcile
\* refers to, as the store holds them.
RContacts ==
    {c \in contacts : /\ c.name = rlast.before.spec.contactRef.name
                      /\ c.namespace = rlast.before.spec.contactRef.namespace}

RGroups ==
    {g \in groups : /\ g.name = rlast.before.spec.contactGroupRef.name
                    /\ g.namespace = rlast.before.spec.contactGroupRef.namespace}

\* The IDs of the provider entries named Loops of a group.
LoopsIDs(g) ==
    {g.providers[i].id : i \in {k \in 1..Len(g.providers) : g.providers[k].name = "Loops"}}

\* The membership's references resolve, to a group with a Loops entry, no
\* read of the store fails, and creation is due: no Ready condition, or
\* reason NotCreated.
RCreationDue ==
    /\ RContacts # {}
    /\ RGroups # {}
    /\ \A g \in RGroups : LoopsIDs(g) # {}
    /\ \A i \in RCalls({"GetContact", "GetGroup"}) : rlast.calls[i].res = "ok"
    /\ (RReady = Nil \/ RReady.reason = LoopsContactGroupMembershipNotCreatedReason)

\* What C19 says of such a reconcile: one AddToMailingList call with the
\* Contact's UID and the group's Loops ID; on success (the store taking the
\* patch) the stored status is Ready=True/Created with providers =
\* [{Loops, contact UID}] and no error is returned.
C19_Outcome ==
    /\ Cardinality(RCalls({"AddToMailingList"})) = 1
    /\ \E c \in RContacts, g \in RGroups :
          /\ RCall("AddToMailingList").arg.userID = c.uid
          /\ RCall("AddToMailingList").arg.listID \in LoopsIDs(g)
          /\ (RCall("AddToMailingList").res = NoError /\ RStoreAnswers)
                => /\ SameCondition(rlast.after.status.ready, "True",
                                    LoopsContactGroupMembershipCreatedReason,
                                    rlast.before.generation)
                   /\ rlast.after.status.providers = << [name |-> "Loops", id |-> c.uid] >>
                   /\ ~rlast.err

\* C19 as stated, for every ContactGroupMembership due for creation.
C19_AnyMembershipAdds ==
    (RRead("Membership") /\ RCreationDue) => C19_Outcome

\* C19 amended: the same for a ContactGroupMembership that carries the
\* finalizer and is not being deleted.
C19_SettledMembershipAdds ==
    (RRead("Membership") /\ RSettled /\ RCreationDue) => C19_Outcome

C19_Witness ==
    /\ RRead("Membership") /\ RSettled /\ RCreationDue
    /\ RCall("AddToMailingList").res = NoError
    /\ rlast.before.spec.contactGroupRef = RefTo(GroupH)
    /\ rlast.patched
    /\ ~rlast.err

\* C20: every failure of AddToMailingList in the ContactGroupMembership
\* reconciler, bad-request included, gives Ready=False/NotCreated with the
\* error's message, stored unless the patch itself fails, and the reconcile
\* returns an error.
C20_AddFailureEscalated ==
    (/\ RRead("Membership")
     /\ RCalls({"AddToMailingList"}) # {}
     /\ RCall("AddToMailingList").res # NoError)
    => /\ rlast.err
       /\ SameCondition(rlast.computed.ready, "False",
                        LoopsContactGroupMembershipNotCreatedReason,
                        rlast.before.generation)
       /\ rlast.computed.ready.message =
             <<"not created", <<"failed", "AddToMailingList",
                                ErrorText(RCall("AddToMailingList").res)>>>>
       /\ RStoreAnswers => rlast.after.status = rlast.computed

C20_Witness ==
    /\ RRead("Membership")
    /\ RCalls({"AddToMailingList"}) # {}
    /\ RBadRequest(RCall("AddToMailingList").res)
    /\ rlast.patched
    /\ rlast.err

\* Every status patch of the last reconcile was taken by the store.
RPatchTaken == \A i \in RCalls({"StatusPatch"}) : rlast.calls[i].res = "ok"

\* The references of the membership reconciled last resolve: both records
\* are in the store and both reads answered.
RResolved ==
    /\ RContacts # {}
    /\ RGroups # {}
    /\ \A i \in RCalls({"GetContact", "GetGroup"}) : rlast.calls[i].res = "ok"

\* The finalizer of the last reconcile did not get a successful
\* RemoveFromMailingList.
RRemoveFailed ==
    \/ RCalls({"RemoveFromMailingList"}) = {}
    \/ RCall("RemoveFromMailingList").res # NoError

\* C21: reconciling a ContactGroupMembership that is being deleted and
\* carries the finalizer resolves the referenced Contact and ContactGroup
\* and, when both resolve and the group has a Loops entry, calls
\* RemoveFromMailingList once with the Contact's UID and that entry's ID and
\* calls nothing else of the remote provider.  When a record does not
\* resolve or the call fails, the status gets Ready=False/NotFinalized
\* (stored, the store taking the patch), an error is returned, no update is
\* made and the membership stays with its finalizer.  The membership is
\* purged only after a successful RemoveFromMailingList, and then it is
\* (the store taking the update).
C21_FinalizerRemovesFromList ==
    (RRead("Membership") /\ rlast.before.deleting /\ rlast.before.finalizer)
    => /\ RCalls({"GetContact"}) # {}
       /\ RCalls(RemoteCalls) = RCalls({"RemoveFromMailingList"})
       /\ Cardinality(RCalls({"RemoveFromMailingList"})) <= 1
       /\ (RResolved /\ \A g \in RGroups : LoopsIDs(g) # {})
             => /\ RCalls({"RemoveFromMailingList"}) # {}
                /\ \E c \in RContacts, g \in RGroups :
                      /\ RCall("RemoveFromMailingList").arg.userID = c.uid
                      /\ RCall("RemoveFromMailingList").arg.listID \in LoopsIDs(g)
       /\ ~RResolved => RCalls({"RemoveFromMailingList"}) = {}
       /\ RRemoveFailed
             => /\ SameCondition(rlast.computed.ready, "False",
                                 LoopsContactGroupMembershipNotFinalizedReason,
                                 rlast.before.generation)
                /\ RPatchTaken => rlast.after.status = rlast.computed
                /\ rlast.err
                /\ RCalls({"Update"}) = {}
                /\ rlast.after.exists /\ rlast.after.finalizer
       /\ ~RRemoveFailed
             => /\ RCalls({"Update"}) # {}
                /\ RCalls({"StatusPatch"}) = {}
                /\ RCall("Update").res = "ok" => (~rlast.after.exists /\ ~rlast.err)
                /\ RCall("Update").res # "ok" => rlast.after = rlast.before

C21_Witness ==
    /\ RRead("Membership") /\ rlast.before.deleting /\ rlast.before.finalizer
    /\ RResolved
    /\ RCalls({"RemoveFromMailingList"}) # {}
    /\ RNotFound(RCall("RemoveFromMailingList").res)
    /\ rlast.patched
    /\ rlast.after.status.ready.reason = LoopsContactGroupMembershipNotFinalizedReason
    /\ rlast.after.finalizer

\* C22: a reconcile of a ContactGroupMembership that is not being deleted
\* and whose Ready condition has reason Created calls neither
\* AddToMailingList nor RemoveFromMailingList, whatever its generation.
C22_CreatedNeverReconciledAgain ==
    (/\ RRead("Membership")
     /\ ~rlast.before.deleting
     /\ RReady # Nil
     /\ RReady.reason = LoopsContactGroupMembershipCreatedReason)
    => RCalls({"AddToMailingList", "RemoveFromMailingList"}) = {}

C22_Witness ==
    /\ RRead("Membership")
    /\ ~rlast.before.deleting
    /\ RReady # Nil
    /\ RReady.reason = LoopsContactGroupMembershipCreatedReason
    /\ RReady.observedGeneration < rlast.before.generation
    /\ RResolved
    /\ RCalls(RemoteCalls) = {}
    /\ ~rlast.err

(***************************************************************************)
(* Properties of the Loops client, stated on the call made last.           *)
(***************************************************************************)
\* The one request of the last call, as the provider decodes it.
CRequest == clast.requests[1]

CDecoded == DecodeContactRequest(CRequest.body)

CStatusOK == clast.answer.transport /\ clast.answer.StatusCode \in 200..299

\* C23: AddToMailingList(userID, listID) and RemoveFromMailingList(userID,
\* listID) each send one request, PUT /contacts/update, whose payload
\* decodes to that userID, no email and a mailingLists map with the one
\* entry listID -> true (add) or listID -> false (remove); when the
\* provider applies it the contact's flag for the list is on (add) or off
\* (remove), and a call repeated after it was applied changes nothing.
C23_ListCallsAreOneUpsert ==
    (clast # Nil /\ clast.call.op \in {"AddToMailingList", "RemoveFromMailingList"})
    => /\ Len(clast.requests) = 1
       /\ CRequest.method = "PUT"
       /\ CRequest.path = "/contacts/update"
       /\ "mailingLists" \in DOMAIN CRequest.body
       /\ clast.call.userID # "" => CRequest.body["userId"] = clast.call.userID
       /\ CDecoded = ContactRequest("", clast.call.userID,
                          {[id |-> clast.call.listID,
                            on |-> clast.call.op = "AddToMailingList"]})
       /\ CStatusOK
             => provider[clast.call.userID].lists[clast.call.listID]
                   = IF clast.call.op = "AddToMailingList" THEN "on" ELSE "off"
       /\ (clast.repeated /\ CStatusOK) => ~clast.changed

C23_Witness ==
    /\ clast # Nil
    /\ clast.call.op = "RemoveFromMailingList"
    /\ clast.repeated
    /\ CStatusOK
    /\ clast.err = NoError
    /\ provider[clast.call.userID].lists[clast.call.listID] = "off"
    /\ \E l \in ClientListIDs : provider[clast.call.userID].lists[l] = "on"

\* C24: every answer of the provider with a status outside 2xx makes the
\* client's operation return an error; IsBadRequest, IsNotFound and
\* IsConflict hold of the returned error exactly for the statuses 400, 404
\* and 409, at most one of them holds, and none holds for a transport
\* error or any other status.
C24_NonSuccessIsError ==
    clast # Nil
    => /\ (clast.answer.transport /\ clast.answer.StatusCode \notin 200..299)
             => clast.err # NoError
       /\ IsBadRequest(clast.err)
             <=> (clast.answer.transport /\ clast.answer.StatusCode = 400)
       /\ IsNotFound(clast.err)
             <=> (clast.answer.transport /\ clast.answer.StatusCode = 404)
       /\ IsConflict(clast.err)
             <=> (clast.answer.transport /\ clast.answer.StatusCode = 409)
       /\ Cardinality({k \in {"400", "404", "409"} :
                          \/ k = "400" /\ IsBadRequest(clast.err)
                          \/ k = "404" /\ IsNotFound(clast.err)
                          \/ k = "409" /\ IsConflict(clast.err)}) <= 1
       /\ ~clast.answer.transport
             => /\ clast.err # NoError
                /\ ~IsBadRequest(clast.err) /\ ~IsNotFound(clast.err)
                /\ ~IsConflict(clast.err)

(***************************************************************************)
(* Properties of the webhook handler under concurrent requests.            *)
(***************************************************************************)
\* C25: in every reachable state, however concurrent webhook requests
\* interleave, at most one ContactGroupMembershipRemoval exists for a
\* contact and a group.
C25_OneRemovalPerPair ==
    \A c \in contacts, g \in groups : Cardinality(ObjectsFor(removals, c, g)) <= 1

\* The request finished last is a subscribed one whose tombstone lookup
\* found a tombstone that was gone when the request came to delete it.
LastTombstoneGone ==
    /\ last # Nil
    /\ last.handled
    /\ RequestKind(last.req) = "subscribed"
    /\ last.lookup.removal # Nil
    /\ last.lookup.removal \notin last.before.removals
    /\ last.failed = "none"

\* C26: a subscribed request whose tombstone is already gone at delete
\* time (the delete answers not-found) is not answered 500: it creates the
\* membership and is answered 200.
C26_GoneTombstoneIsNotAnError ==
    LastTombstoneGone
    => /\ last.resp = OkResponse
       /\ \E m \in memberships \ last.before.memberships :
             m.spec = RefsOf(last.lookup.contact, last.lookup.group)

(***************************************************************************)
(* Properties of the field indexes.                                        *)
(***************************************************************************)
\* C27: the tombstone lookup for a contact and a group returns only
\* ContactGroupMembershipRemoval records whose contactRef and
\* contactGroupRef are that contact and that group; the index key is
\* injective on (contact name, contact namespace, group name, group
\* namespace); a subscribed event deletes no tombstone of another pair.
C27_TombstoneLookupIsExact ==
    /\ \A c1 \in contacts, c2 \in contacts, g1 \in groups, g2 \in groups :
          buildGroupMembershipRemovalIndexKey(RefTo(c1), RefTo(g1))
              = buildGroupMembershipRemovalIndexKey(RefTo(c2), RefTo(g2))
          => RefsOf(c1, g1) = RefsOf(c2, g2)
    /\ \A c \in contacts, g \in groups :
          ListRemovalsByKey(removals, c, g) \subseteq ObjectsFor(removals, c, g)
    /\ (LastSubscribed /\ LastResolvable)
          => (last.before.removals \ removals)
                \subseteq ObjectsFor(last.before.removals, LastContact, LastGroup)

\* The Contacts whose status.providers holds an entry named Loops with this ID.
ContactsWithStoredLoopsID(id) ==
    {c \in contacts : \E i \in 1..Len(c.providers) :
                         c.providers[i].name = "Loops" /\ c.providers[i].id = id}

\* C28: the Contact lookup by a webhook userId returns exactly the Contacts
\* whose stored Loops provider ID is that userId, so a Contact with no
\* stored provider ID is never returned and no event is handled for it.
C28_ContactIndexedByProviderID ==
    /\ \A userUID \in {"", "1", "2", "9"} \ {""} :
          ListContactsByProviderID(contacts, userUID) = ContactsWithStoredLoopsID(userUID)
    /\ (LastHandled /\ last.resp = OkResponse)
          => ContactsWithStoredLoopsID(LastUserID) # {}

(***************************************************************************)
(* Properties of the finalizer-update path of both reconcilers.            *)
(***************************************************************************)
\* C29: a reconcile, of a Contact or of a ContactGroupMembership, whose
\* finalizer step changed the object (finalizer added, or removed after the
\* finalizer ran) persists it with one Update, which is its last call: no
\* call to the remote provider follows.  On a conflict it asks for a
\* requeue and returns no error; on any other failure it returns an error
\* and asks for no requeue; on success it returns neither.
C29_FinalizerUpdateEndsReconcile ==
    (rlast # Nil /\ rlast.before.exists /\ rlast.calls[1].res = "ok")
    => /\ (RCalls({"Update"}) # {})
             <=> \/ ~rlast.before.deleting /\ ~rlast.before.finalizer
                 \/ /\ rlast.before.deleting /\ rlast.before.finalizer
                    /\ RCalls({"DeleteContact", "RemoveFromMailingList"}) # {}
                    /\ \A i \in RCalls({"DeleteContact", "RemoveFromMailingList"}) :
                          rlast.calls[i].res = NoError \/ RNotFound(rlast.calls[i].res)
                    /\ \A i \in RCalls({"RemoveFromMailingList"}) :
                          rlast.calls[i].res = NoError
       /\ RCalls({"Update"}) # {}
             => /\ RCalls({"Update"}) = {Len(rlast.calls)}
                /\ RCalls({"StatusPatch", "Create", "UpsertContact", "AddToMailingList"}) = {}
                /\ RCall("Update").res = "conflict"
                      => (rlast.requeue /\ ~rlast.err /\ rlast.after = rlast.before)
                /\ (RCall("Update").res \notin {"ok", "conflict"})
                      => (rlast.err /\ ~rlast.requeue /\ rlast.after = rlast.before)
                /\ RCall("Update").res = "ok"
                      => /\ ~rlast.err /\ ~rlast.requeue
                         /\ rlast.after.exists
                               => (rlast.after.finalizer /\ ~rlast.before.finalizer)
                         /\ ~rlast.after.exists => rlast.before.finalizer

C29_Witness ==
    /\ RRead("Membership")
    /\ rlast.before.deleting
    /\ RCalls({"RemoveFromMailingList"}) # {}
    /\ RCalls({"Update"}) # {}
    /\ RCall("Update").res = "conflict"
    /\ rlast.requeue
    /\ ~rlast.err
    /\ rlast.after.finalizer

(***************************************************************************)
(* Properties of the panic recovery of ServeHTTP.                          *)
(***************************************************************************)
\* C30: a panic raised while a webhook request is handled is recovered and
\* answered with 500, and the request served after it is handled as any
\* other: an unverified one is answered 401 and changes nothing, a verified
\* subscribed event whose ids resolve (the store answering) is answered 200
\* and creates the one membership of its pair.
C30_PanicRecovered ==
    /\ (LastIsHTTP /\ last.panicked)
          => /\ last.resp = InternalServerErrorResponse
             /\ last.handled
    /\ (LastIsHTTP /\ last.afterPanic /\ ~last.panicked)
          => /\ (last.http.method = "POST" /\ ~last.http.readErr /\ LastVerify # "OK")
                   => (last.resp = UnauthorizedResponse /\ StoreUntouched)
             /\ (LastSubscribed /\ LastResolvable /\ last.failed = "none")
                   => /\ last.resp = OkResponse
                      /\ Cardinality(memberships \ last.before.memberships) = 1
                      /\ \A m \in memberships \ last.before.memberships :
                            m.spec = RefsOf(LastContact, LastGroup)

C30_Witness ==
    /\ LastIsHTTP
    /\ last.afterPanic
    /\ ~last.panicked
    /\ LastSubscribed /\ LastResolvable
    /\ last.resp = OkResponse
    /\ Cardinality(memberships \ last.before.memberships) = 1

(***************************************************************************)
(* Properties of the stored status and of the finalizers.                  *)
(***************************************************************************)
\* The entries of the stored status's conditions that have the given type.
REntries(type) ==
    {i \in 1..Len(resource.status.conditions) : resource.status.conditions[i] = type}

\* C31: in every reachable state the status of the Contact or
\* ContactGroupMembership holds at most one Ready condition entry and at
\* most one NewsLetterAdded entry (the entry being the one the reconciler
\* finds), and its providers list holds at most one entry per provider name.
C31_OneEntryPerCondition ==
    /\ \A type \in DOMAIN resource.status \ {"conditions", "providers"} :
          /\ Cardinality(REntries(type)) <= 1
          /\ (REntries(type) # {}) <=> (resource.status[type] # Nil)
    /\ \A type \in {"ready", "newsletter"} : Cardinality(REntries(type)) <= 1
    /\ \A i, j \in 1..Len(resource.status.providers) :
          resource.status.providers[i].name = resource.status.providers[j].name => i = j

\* A Contact whose Ready condition was set a second time, with another
\* reason, after its NewsLetterAdded condition was stored.
C31_Witness ==
    /\ RRead("Contact")
    /\ rlast.patched
    /\ rlast.before.status.ready # Nil
    /\ rlast.before.status.newsletter # Nil
    /\ rlast.before.status.ready.reason # resource.status.ready.reason
    /\ Len(resource.status.conditions) = 2
    /\ Len(resource.status.providers) = 1

\* C32: no reconcile calls UpsertContact or AddToMailingList for a record
\* that does not carry the reconciler's finalizer in the store.
C32_NoRemoteCallBeforeFinalizer ==
    (rlast # Nil /\ RCalls({"UpsertContact", "AddToMailingList"}) # {})
        => rlast.before.finalizer

\* The reconcile made last ran the Contact finalizer to its end: DeleteContact
\* succeeded or answered not-found, and the finalizer was removed in the store.
RFinalized ==
    /\ RRead("Contact")
    /\ rlast.before.deleting
    /\ rlast.before.finalizer
    /\ RCalls({"DeleteContact"}) # {}
    /\ ~rlast.after.finalizer
    /\ ~rlast.err

\* C33: the reconcile of a Contact that follows the successful completion of
\* its finalizer, whatever happened to the record's generation in between,
\* neither calls UpsertContact nor creates a newsletter
\* ContactGroupMembership.
C33_FinalizedContactLeftAlone ==
    [][(RFinalized /\ rlast' # rlast)
          => \A i \in 1..Len(rlast'.calls) :
                rlast'.calls[i].op \notin {"UpsertContact", "Create"}]_vars

\* C34: in every reachable state the Ready condition of a Contact has status
\* True exactly with reason Created or Updated and status False exactly with
\* reason NotCreated or NotUpdated, its observedGeneration does not exceed
\* the generation, and with reason Created or Updated the providers list
\* holds the entry {Loops, UID}.
C34_ReadyConditionConsistent ==
    (resource.kind = "Contact" /\ resource.status.ready # Nil)
    => LET ready == resource.status.ready
       IN  /\ ready.status \in {"True", "False"}
           /\ ready.status = "True"
                 <=> ready.reason \in {LoopsContactCreatedReason, LoopsContactUpdatedReason}
           /\ ready.status = "False"
                 <=> ready.reason \in {LoopsContactNotCreatedReason,
                                       LoopsContactNotUpdatedReason}
           /\ ready.observedGeneration <= resource.generation
           /\ ready.reason \in {LoopsContactCreatedReason, LoopsContactUpdatedReason}
                 => \E i \in 1..Len(resource.status.providers) :
                       resource.status.providers[i]
                          = [name |-> "Loops", id |-> resource.uid]

\* A Contact created at one generation and updated at a later one.
C34_Witness ==
    /\ resource.kind = "Contact"
    /\ resource.status.ready # Nil
    /\ resource.status.ready.reason = LoopsContactUpdatedReason
    /\ resource.status.ready.observedGeneration = resource.generation
    /\ resource.generation > 1
    /\ resource.status.providers = << [name |-> "Loops", id |-> resource.uid] >>

\* The Contact is Ready=True for its current generation.
RConverged ==
    /\ resource.status.ready # Nil
    /\ resource.status.ready.status = "True"
    /\ resource.status.ready.observedGeneration = resource.generation

\* The Contact is Ready=False/NotUpdated for its current generation.
RRestsNotUpdated ==
    /\ resource.status.ready # Nil
    /\ resource.status.ready.reason = LoopsContactNotUpdatedReason
    /\ resource.status.ready.observedGeneration = resource.generation

\* C35 as stated: a Contact that is not deleted, whose spec stops changing
\* and whose reconcile keeps being run and is eventually answered without
\* error, eventually reaches and stays in Ready=True with observedGeneration
\* equal to its generation, whatever earlier attempts ended in.
C35_ContactConverges == <>[]RConverged

\* C35 amended: such a Contact eventually reaches and stays in Ready=True
\* with observedGeneration equal to its generation, or in
\* Ready=False/NotUpdated for its generation when the update attempt for its
\* last generation ended in bad-request.
C35_ContactConvergesOrRestsNotUpdated == <>[](RConverged \/ RRestsNotUpdated)

\* A Contact that became Ready=True/Created after an attempt that ended in
\* bad-request.
C35_Witness ==
    /\ RRead("Contact")
    /\ RReady # Nil
    /\ RReady.reason = LoopsContactNotCreatedReason
    /\ rlast.patched
    /\ RConverged

\* The Contact the membership references is purged.
RContactPurged == \A c \in contacts : RefTo(c) # resource.spec.contactRef

\* The membership is kept by its finalizer: it is being deleted and its
\* Ready condition is False/NotFinalized.
RBlocked ==
    /\ resource.exists /\ resource.deleting /\ resource.finalizer
    /\ resource.status.ready # Nil
    /\ resource.status.ready.reason = LoopsContactGroupMembershipNotFinalizedReason

\* C36 as stated: a Contact and a ContactGroupMembership that references it,
\* both being deleted, are both eventually purged, in whichever order their
\* finalizers run, when their reconciles keep being run and are eventually
\* answered without error.
C36_BothPurged == <>[](RContactPurged /\ ~resource.exists)

\* C36 amended: the Contact is eventually purged, and the membership is
\* eventually purged too or, its finalizer having found the Contact gone,
\* stays in the store with Ready=False/NotFinalized.
C36_PurgedOrBlocked == <>[](RContactPurged /\ (~resource.exists \/ RBlocked))

\* Both are purged, the membership by a finalizer that removed the contact
\* from the mailing list.
C36_Witness ==
    /\ RContactPurged
    /\ ~resource.exists
    /\ rlast # Nil
    /\ RCalls({"RemoveFromMailingList"}) # {}

\* C37: when the reconcile of a newsletter- Contact that carries the
\* finalizer and is not being deleted returns without error and the
\* newsletter ContactGroupMembership is in the store, the Contact's
\* NewsLetterAdded condition is True afterwards.
C37_NewsLetterAddedRecorded ==
    (/\ RRead("Contact")
     /\ RSettled
     /\ RNewsletterName
     /\ ~rlast.err
     /\ \E m \in rlast.msAfter :
           /\ m.name = generateCgmName(rlast.before)
           /\ m.namespace = rlast.before.namespace)
    => /\ rlast.after.status.newsletter # Nil
       /\ rlast.after.status.newsletter.status = "True"

\* The last reconcile called UpsertContact and was answered an error other
\* than bad-request.
RUpsertEscalated ==
    /\ RRead("Contact")
    /\ RCalls({"UpsertContact"}) # {}
    /\ RCall("UpsertContact").res # NoError
    /\ ~RBadRequest(RCall("UpsertContact").res)

\* C38: when UpsertContact fails with an error other than bad-request, the
\* Contact reconcile returns an error, writes no status and makes no
\* attempt to create the newsletter membership: the stored status and the
\* ContactGroupMembership records are as before.
C38_EscalatedUpsertChangesNothing ==
    RUpsertEscalated
    => /\ rlast.err
       /\ RCalls({"StatusPatch", "Create", "Update"}) = {}
       /\ ~rlast.patched
       /\ rlast.after = rlast.before
       /\ rlast.msAfter = rlast.msBefore

\* A newsletter- Contact whose update was answered a transport error while
\* its NewsLetterAdded condition is not yet True.
C38_Witness ==
    /\ RUpsertEscalated
    /\ RNewsletterName
    /\ ~RCall("UpsertContact").res.api
    /\ RReady # Nil
    /\ (rlast.before.status.newsletter = Nil
           \/ rlast.before.status.newsletter.status = "False")

\* The last reconcile, of a membership that is not being deleted, failed to
\* read the Contact or the ContactGroup the membership references.
RRefsUnread ==
    /\ RRead("Membership")
    /\ ~rlast.before.deleting
    /\ \E i \in RCalls({"GetContact", "GetGroup"}) : rlast.calls[i].res # "ok"

\* The membership references a Contact and a ContactGroup of the store, the
\* group has no provider entry named Loops, and the store answers every
\* call of the reconcile.
RGroupWithoutLoops ==
    /\ RRead("Membership")
    /\ ~rlast.before.deleting
    /\ RContacts # {}
    /\ RGroups # {}
    /\ \A g \in RGroups : LoopsIDs(g) = {}
    /\ RStoreAnswers

\* What C39 says of the two cases: a failed read is returned as an error
\* with no call to the remote provider and no change of the status; a group
\* without a Loops entry is recorded as Ready=False/NotCreated and returned
\* as an error, with no call to the remote provider.
C39_Outcome(groupCase) ==
    /\ RRefsUnread
          => /\ rlast.err
             /\ RCalls(RemoteCalls) = {}
             /\ RCalls({"StatusPatch"}) = {}
             /\ rlast.after = rlast.before
    /\ groupCase
          => /\ rlast.err
             /\ RCalls(RemoteCalls) = {}
             /\ SameCondition(rlast.after.status.ready, "False",
                              LoopsContactGroupMembershipNotCreatedReason,
                              rlast.before.generation)

\* C39 as stated, for every ContactGroupMembership that is not being
\* deleted.
C39_UnreadableOrNoLoopsGroup == C39_Outcome(RGroupWithoutLoops)

\* C39 amended: the case of the group without a Loops entry is that of a
\* membership that carries the finalizer and whose Ready condition is absent
\* or has reason NotCreated.
C39_SettledUnreadableOrNoLoopsGroup ==
    C39_Outcome(/\ RGroupWithoutLoops
                /\ RSettled
                /\ (RReady = Nil
                      \/ RReady.reason = LoopsContactGroupMembershipNotCreatedReason))

\* A membership with the finalizer whose group has no Loops entry, recorded
\* as NotCreated.
C39_Witness ==
    /\ RGroupWithoutLoops
    /\ RSettled
    /\ RReady = Nil
    /\ rlast.patched
    /\ rlast.err

(***************************************************************************)
(* C40.                                                                    *)
(***************************************************************************)
PairDone == \A i \in 1..Len(inflight) : inflight[i].pc = "done"

\* Whether a membership, and whether a removal, of the pair is in the store.
PairPresence(st) ==
    LET c == inflight[1].lookup.contact
        g == inflight[1].lookup.group
    IN  <<ObjectsFor(st.memberships, c, g) # {}, ObjectsFor(st.removals, c, g) # {}>>

\* The presences the handler leaves when it handles the first request to its
\* response and then the second, from the store the pair started from.
PairSequential(first, second) ==
    LET c == inflight[1].lookup.contact
        g == inflight[1].lookup.group
        found(st) == LET rs == ListRemovalsByKey(st.removals, c, g)
                     IN  IF rs = {} THEN {Nil} ELSE rs
        run(req, st) == {Handle(req, st, "none", c, g, rm) : rm \in found(st)}
    IN  {PairPresence(o2) : o2 \in UNION {run(inflight[second].req, o1) :
                                             o1 \in run(inflight[first].req, last.before)}}

\* C40: when a subscribed and an unsubscribed request for the same contact
\* and group have both answered, however their store steps interleaved, both
\* answered 200 and the presence of a membership and of a removal of the pair
\* is one that handling the two requests one after the other, in one of the
\* two orders, leaves.
C40_PairSerializable ==
    PairDone
        => /\ \A i \in 1..Len(inflight) : inflight[i].resp = OkResponse
           /\ PairPresence([memberships |-> memberships, removals |-> removals])
                 \in PairSequential(1, 2) \cup PairSequential(2, 1)

\* Both requests have answered after the unsubscribed request looked up and
\* created its removal between the subscribed request's delete and create.
C40_Witness ==
    /\ PairDone
    /\ \E k \in 1..Len(hist) - 3 :
          /\ hist[k] = [task |-> 1, op |-> "delete"]
          /\ hist[k + 1] = [task |-> 2, op |-> "lookup"]
          /\ hist[k + 2] = [task |-> 2, op |-> "create"]
          /\ hist[k + 3] = [task |-> 1, op |-> "create"]

====
